---------------------------- MODULE Spec2Model ----------------------------
(***************************************************************************)
(* A model of the housing-notice analyzer (src/app.py, src/streamlit_app.py)*)
(*                                                                         *)
(* A string is the sequence of its characters, so that the code's          *)
(* substring tests, replacements and strips are computed and not assumed.  *)
(* A Hangul syllable is one character, written here by its romanization    *)
(* ("gong" for 공): len() counts it once, as Python does.                  *)
(* A text is the sequence of its lines (str.splitlines).  A table is a     *)
(* sequence of rows, a row a sequence of cells.                            *)
(*                                                                         *)
(* Each extractor has a specification of its own (SpecUpdate,              *)
(* SpecSchedule, ...): the variables of the other extractors stay at their *)
(* idle values there.                                                      *)
(***************************************************************************)
EXTENDS Integers, Sequences, FiniteSets, TLC

VARIABLES
    pdf,        \* the document: a sequence of pages, each a sequence of tables
    pc,         \* where the running extractor is: "scan", then "done"
    page_idx,   \* the page the extractor is at (from 1)
    table_idx,  \* the table of that page it is at (from 1)
    schedule,   \* extract_schedule_from_table: label -> stored value
    offered,    \* history: label -> the values offered to update(), in order
    nupd,       \* history: number of update() calls so far
    fn,         \* SpecText: the function called
    arg,        \* SpecText: its argument
    ret,        \* SpecText: what it returned
    text_candidates,    \* role -> names found in the text
    table_candidates,   \* role -> <<name, page_idx>> found in tables
    last_page_idx,      \* index (from 0) of the last page
    scores,             \* role -> <<name, score>> in order of insertion
    final,              \* role -> the name chosen
    results,            \* the price rows found so far
    last_col_map,       \* col_map of the last header table
    col_map,            \* col_map of the table read last
    current_type,       \* forward-fill: 주택형
    current_abbr,       \* forward-fill: 약식표기
    current_dongho,     \* forward-fill: 동/호별
    col_centers,        \* layout path: column name -> x of its header word
    header_y,           \* layout path: y of the header row
    layout_fails,       \* input: the layout path raises an exception
    price_rows,         \* the rows handed to display and export
    core,               \* main flow: extract_core_info(text)
    move_in,            \* main flow: extract_move_in_date(text)
    loan_cond,          \* main flow: extract_loan_condition(text)
    complex_name,       \* main flow: parse_complex_name(text)
    location,           \* main flow: parse_location(text)
    supply_rows,        \* main flow: extract_supply_target_from_tables(pdf)
    shown,              \* what st.markdown / st.write / st.table have shown
    schedule_rows,      \* main flow: rows, the schedule rows
    excel,              \* the arguments make_excel_file has written out
    run,                \* SpecTwice: the run of the extractors, 1 or 2
    first_run           \* SpecTwice: what the first run returned

cursorVars == <<pdf, pc, page_idx, table_idx>>

schedVars == <<schedule, offered, nupd>>

callVars == <<fn, arg, ret>>

compVars == <<text_candidates, table_candidates, last_page_idx, scores, final>>

fillVars == <<current_type, current_abbr, current_dongho>>

priceVars == <<results, last_col_map, col_map, current_type, current_abbr,
               current_dongho, col_centers, header_y, layout_fails, price_rows>>

mainVars == <<core, move_in, loan_cond, complex_name, location, supply_rows,
              shown, schedule_rows, excel, run, first_run>>

vars == <<pdf, pc, page_idx, table_idx, schedule, offered, nupd, fn, arg, ret,
          text_candidates, table_candidates, last_page_idx, scores, final,
          results, last_col_map, col_map, current_type, current_abbr,
          current_dongho, col_centers, header_y, layout_fails, price_rows,
          core, move_in, loan_cond, complex_name, location, supply_rows,
          shown, schedule_rows, excel, run, first_run>>

(***************************************************************************)
(* Bounds of the model                                                     *)
(***************************************************************************)
MaxUpdates == 3

MaxSchedRows == 3

MaxTextLines == 2

MaxPad == 28

MaxCands == 2

MaxCompRows == 2

MaxPriceRows == 2

(***************************************************************************)
(* Strings                                                                 *)
(***************************************************************************)
Whitespace == {" ", "\n", "\t"}

DigitChars == {"0", "1", "2", "3", "4", "5", "6", "7", "8", "9"}

\* `p in s` of Python: p occurs in s as a contiguous run
Contains(s, p) ==
    \E i \in 0..(Len(s) - Len(p)) : SubSeq(s, i + 1, i + Len(p)) = p

StartsWith(s, p) == Len(p) <= Len(s) /\ SubSeq(s, 1, Len(p)) = p

EndsWith(s, p) ==
    Len(p) <= Len(s) /\ SubSeq(s, Len(s) - Len(p) + 1, Len(s)) = p

\* s[n:] of Python, n >= 0
Drop(s, n) == SubSeq(s, n + 1, Len(s))

RECURSIVE Replace(_, _, _)
\* str.replace(p, r): every non-overlapping occurrence, left to right (p # "")
Replace(s, p, r) ==
    IF Len(s) = 0 THEN <<>>
    ELSE IF StartsWith(s, p) THEN r \o Replace(Drop(s, Len(p)), p, r)
    ELSE <<Head(s)>> \o Replace(Tail(s), p, r)

RECURSIVE LStripChars(_, _)
\* str.lstrip(chars)
LStripChars(s, chars) ==
    IF Len(s) > 0 /\ Head(s) \in chars THEN LStripChars(Tail(s), chars) ELSE s

RECURSIVE RStripChars(_, _)
\* str.rstrip(chars)
RStripChars(s, chars) ==
    IF Len(s) > 0 /\ s[Len(s)] \in chars
    THEN RStripChars(SubSeq(s, 1, Len(s) - 1), chars)
    ELSE s

\* str.strip(chars)
StripChars(s, chars) == RStripChars(LStripChars(s, chars), chars)

\* str.strip()
Strip(s) == StripChars(s, Whitespace)

RECURSIVE CollapseWs(_)
\* re.sub(r"\s+", " ", s)
CollapseWs(s) ==
    IF Len(s) = 0 THEN <<>>
    ELSE IF Head(s) \in Whitespace
         THEN <<" ">> \o CollapseWs(LStripChars(s, Whitespace))
         ELSE <<Head(s)>> \o CollapseWs(Tail(s))

\* s.replace(" ", "")
RemoveSpaces(s) == SelectSeq(s, LAMBDA ch : ch # " ")

\* re.sub(r"[^0-9]", "", s)
DigitsOf(s) == SelectSeq(s, LAMBDA ch : ch \in DigitChars)

\* re.search(r"\d", s)
HasDigit(s) == \E i \in 1..Len(s) : s[i] \in DigitChars

DigitVal(ch) ==
    CASE ch = "0" -> 0 [] ch = "1" -> 1 [] ch = "2" -> 2 [] ch = "3" -> 3
      [] ch = "4" -> 4 [] ch = "5" -> 5 [] ch = "6" -> 6 [] ch = "7" -> 7
      [] ch = "8" -> 8 [] ch = "9" -> 9

RECURSIVE IntOf(_)
\* int(digits) of a string of digits
IntOf(ds) ==
    IF Len(ds) = 0 THEN 0
    ELSE 10 * IntOf(SubSeq(ds, 1, Len(ds) - 1)) + DigitVal(ds[Len(ds)])

DigitChar(d) == CHOOSE ch \in DigitChars : DigitVal(ch) = d

RECURSIVE StrOf(_)
\* str(n), n >= 0
StrOf(n) ==
    IF n < 10 THEN <<DigitChar(n)>>
    ELSE StrOf(n \div 10) \o <<DigitChar(n % 10)>>

(***************************************************************************)
(* Dates.  What date_pattern \d{4}\.\d{1,2}\.\d{1,2} matches is kept as    *)
(* one character of the string, named by its text: re.findall(date_pattern,*)
(* s) is the sequence of these characters of s.                            *)
(***************************************************************************)
DateTokens ==
    {"2025.03.10", "2025.03.15", "2025.3.15", "2024.02.29", "2025.13.40",
     "2025.02.30"}

Date(y, m, d) == [y |-> y, m |-> m, d |-> d]

\* the year, month and day fields strptime reads from a token
DateOf(tok) ==
    CASE tok = "2025.03.10" -> Date(2025, 3, 10)
      [] tok = "2025.03.15" -> Date(2025, 3, 15)
      [] tok = "2025.3.15"  -> Date(2025, 3, 15)
      [] tok = "2024.02.29" -> Date(2024, 2, 29)
      [] tok = "2025.13.40" -> Date(2025, 13, 40)
      [] tok = "2025.02.30" -> Date(2025, 2, 30)

IsLeap(y) == (y % 4 = 0 /\ y % 100 # 0) \/ y % 400 = 0

DaysInMonth(y, m) ==
    IF m = 2 THEN (IF IsLeap(y) THEN 29 ELSE 28)
    ELSE IF m \in {4, 6, 9, 11} THEN 30 ELSE 31

\* datetime.strptime(tok, "%Y.%m.%d") does not raise
ValidDate(tok) ==
    LET t == DateOf(tok) IN
    /\ t.y \in 1..9999
    /\ t.m \in 1..12
    /\ t.d \in 1..DaysInMonth(t.y, t.m)

\* strptime(a) > strptime(b), both valid
DateLater(a, b) ==
    LET x == DateOf(a)
        y == DateOf(b)
    IN \/ x.y > y.y
       \/ x.y = y.y /\ x.m > y.m
       \/ x.y = y.y /\ x.m = y.m /\ x.d > y.d

\* re.findall(date_pattern, s)
FindAllDates(s) == SelectSeq(s, LAMBDA ch : ch \in DateTokens)

(***************************************************************************)
(* extract_schedule_from_table: the labels and update()                    *)
(***************************************************************************)
\* the keys of the schedule dict:
\*   notice   = 입주자모집공고일       special  = 특별공급 접수일
\*   general1 = 일반공급 1순위 접수일  general2 = 일반공급 2순위 접수일
\*   winner   = 당첨자발표일           docs     = 서류접수
\*   contract = 계약체결
Labels ==
    {"notice", "special", "general1", "general2", "winner", "docs", "contract"}

\* label in ["서류접수", "계약체결"]
WindowLabels == {"docs", "contract"}

\* None
NoValue == <<>>

EmptySchedule == [l \in Labels |-> NoValue]

\* update(label, new_val): the schedule after the call.  With a value
\* stored, a strptime that raises on either first token leaves it as it is.
Update(sched, label, new_val) ==
    LET old == sched[label]
        old_f == FindAllDates(old)
        new_f == FindAllDates(new_val)
    IN IF old = NoValue THEN [sched EXCEPT ![label] = new_val]
       ELSE IF /\ Len(old_f) > 0
               /\ Len(new_f) > 0
               /\ ValidDate(old_f[1])
               /\ ValidDate(new_f[1])
               /\ DateLater(new_f[1], old_f[1])
            THEN [sched EXCEPT ![label] = new_val]
            ELSE sched

(***************************************************************************)
(* SpecUpdate: any sequence of update() calls on an empty schedule         *)
(***************************************************************************)
\* "d" for one date, "d1 ~ d2" for a window
UpdateValues ==
    {<<d>> : d \in DateTokens}
        \cup {<<"2025.03.10", " ", "~", " ", "2025.03.15">>}

CursorIdle ==
    /\ pdf = <<>>
    /\ pc = "idle"
    /\ page_idx = 0
    /\ table_idx = 0

CallIdle ==
    /\ fn = "none"
    /\ arg = <<>>
    /\ ret = <<>>

CompIdle ==
    /\ text_candidates = <<>>
    /\ table_candidates = <<>>
    /\ last_page_idx = 0
    /\ scores = <<>>
    /\ final = <<>>

PriceIdle ==
    /\ results = <<>>
    /\ last_col_map = <<>>
    /\ col_map = <<>>
    /\ current_type = <<>>
    /\ current_abbr = <<>>
    /\ current_dongho = <<>>
    /\ col_centers = <<>>
    /\ header_y = 0
    /\ layout_fails = FALSE
    /\ price_rows = <<>>

MainIdle ==
    /\ core = <<>>
    /\ move_in = <<>>
    /\ loan_cond = <<>>
    /\ complex_name = <<>>
    /\ location = <<>>
    /\ supply_rows = <<>>
    /\ shown = <<>>
    /\ schedule_rows = <<>>
    /\ excel = <<>>
    /\ run = 0
    /\ first_run = <<>>

InitUpdate ==
    /\ MainIdle
    /\ CursorIdle
    /\ CallIdle
    /\ CompIdle
    /\ PriceIdle
    /\ schedule = EmptySchedule
    /\ offered = [l \in Labels |-> <<>>]
    /\ nupd = 0

UpdateCall ==
    \E l \in Labels, v \in UpdateValues :
        /\ nupd < MaxUpdates
        /\ schedule' = Update(schedule, l, v)
        /\ offered' = [offered EXCEPT ![l] = Append(@, v)]
        /\ nupd' = nupd + 1
        /\ UNCHANGED <<mainVars, cursorVars, callVars, compVars, priceVars>>

NextUpdate == UpdateCall

SpecUpdate == InitUpdate /\ [][NextUpdate]_vars

(***************************************************************************)
(* C1: for every label, the stored value's first date is the latest of the *)
(* offered values whose first date token is a valid calendar date; a value *)
(* whose token is not a valid date is never the stored one and never keeps *)
(* a later valid date from being stored.                                   *)
(***************************************************************************)
FirstDate(value) == FindAllDates(value)[1]

ValidOffered(l) ==
    {i \in 1..Len(offered[l]) : ValidDate(FirstDate(offered[l][i]))}

C1_StoredIsLatestValidOffered ==
    \A l \in Labels :
        /\ schedule[l] # NoValue => ValidDate(FirstDate(schedule[l]))
        /\ ValidOffered(l) # {} =>
              /\ schedule[l] # NoValue
              /\ \E i \in ValidOffered(l) :
                    DateOf(FirstDate(offered[l][i]))
                        = DateOf(FirstDate(schedule[l]))
              /\ \A i \in ValidOffered(l) :
                    ~DateLater(FirstDate(offered[l][i]), FirstDate(schedule[l]))

(***************************************************************************)
(* The table loop shared by the table extractors:                          *)
(*   for page in pdf.pages: for table in page.extract_tables() or []: ...  *)
(***************************************************************************)
AtTable ==
    /\ pc = "scan"
    /\ page_idx <= Len(pdf)
    /\ table_idx <= Len(pdf[page_idx])

AtPageEnd ==
    /\ pc = "scan"
    /\ page_idx <= Len(pdf)
    /\ table_idx > Len(pdf[page_idx])

AtDocEnd == pc = "scan" /\ page_idx > Len(pdf)

CursorStart ==
    /\ pc = "scan"
    /\ page_idx = 1
    /\ table_idx = 1

RECURSIVE SeqsOf(_, _)
\* the sequences of length n over S
SeqsOf(S, n) ==
    IF n = 0 THEN {<<>>}
    ELSE {Append(q, x) : q \in SeqsOf(S, n - 1), x \in S}

SeqsUpTo(S, n) == UNION {SeqsOf(S, k) : k \in 1..n}

(***************************************************************************)
(* extract_schedule_from_table: the scan of the tables                     *)
(***************************************************************************)
\* header_map, in the order of the dict
HeaderMap ==
    << <<(* 입주자모집공고 *) <<"ip", "ju", "ja", "mo", "jip", "gong", "go">>, "notice">>,
       <<(* 입주자 모집공고 *) <<"ip", "ju", "ja", " ", "mo", "jip", "gong", "go">>, "notice">>,
       <<(* 특별공급접수 *) <<"teuk", "byeol", "gong", "geup", "jeop", "su">>, "special">>,
       <<(* 특별공급 신청 *) <<"teuk", "byeol", "gong", "geup", " ", "sin", "cheong">>, "special">>,
       <<(* 특별공급 접수 *) <<"teuk", "byeol", "gong", "geup", " ", "jeop", "su">>, "special">>,
       <<(* 1순위 접수 *) <<"1", "sun", "wi", " ", "jeop", "su">>, "general1">>,
       <<(* 1순위 *) <<"1", "sun", "wi">>, "general1">>,
       <<(* 일반공급 1순위 접수 *) <<"il", "ban", "gong", "geup", " ", "1", "sun", "wi", " ", "jeop", "su">>, "general1">>,
       <<(* 2순위 접수 *) <<"2", "sun", "wi", " ", "jeop", "su">>, "general2">>,
       <<(* 2순위 *) <<"2", "sun", "wi">>, "general2">>,
       <<(* 일반공급 2순위 접수 *) <<"il", "ban", "gong", "geup", " ", "2", "sun", "wi", " ", "jeop", "su">>, "general2">>,
       <<(* 당첨자발표일 *) <<"dang", "cheom", "ja", "bal", "pyo", "il">>, "winner">>,
       <<(* 당첨자 발표 *) <<"dang", "cheom", "ja", " ", "bal", "pyo">>, "winner">>,
       <<(* 서류접수 *) <<"seo", "ryu", "jeop", "su">>, "docs">>,
       <<(* 정당계약 *) <<"jeong", "dang", "gye", "yak">>, "contract">>,
       <<(* 계약체결 *) <<"gye", "yak", "che", "gyeol">>, "contract">> >>

\* the scan below the label cell that takes the date row furthest down
FoundBelowLast(rows, r, c) ==
    LET below == {rr \in (r + 1)..Len(rows) :
                     c <= Len(rows[rr]) /\ FindAllDates(rows[rr][c]) # <<>>}
    IN IF below = {} THEN <<>>
       ELSE FindAllDates(rows[CHOOSE x \in below : \A y \in below : y <= x][c])

RECURSIVE FoundBelowFrom(_, _, _)
\* for rr in range(r + 1, len(rows)): the `found` of the first row whose
\* cell in column c holds a date (then break); "" when no row does
FoundBelowFrom(rows, rr, c) ==
    IF rr > Len(rows) THEN <<>>
    ELSE IF c > Len(rows[rr]) THEN FoundBelowFrom(rows, rr + 1, c)
    ELSE IF FindAllDates(rows[rr][c]) = <<>> THEN FoundBelowFrom(rows, rr + 1, c)
    ELSE FindAllDates(rows[rr][c])

FoundBelow(rows, r, c) == FoundBelowFrom(rows, r + 1, c)

\* the value handed to update(): f"{found[0]} ~ {found[-1]}" or found[0]
ScheduleValue(label, found) ==
    IF label \in WindowLabels /\ Len(found) >= 2
    THEN <<found[1], " ", "~", " ", found[Len(found)]>>
    ELSE <<found[1]>>

RECURSIVE UpdateEach(_, _, _, _)
\* update() for the entries of header_map found in the cell, in dict order
UpdateEach(sched, entries, found, k) ==
    IF k > Len(entries) THEN sched
    ELSE UpdateEach(Update(sched, entries[k][2],
                           ScheduleValue(entries[k][2], found)),
                    entries, found, k + 1)

\* for key, label in header_map.items(), for the cell at (r, c)
ScanKeys(sched, rows, r, c) ==
    LET cell_t == RemoveSpaces(rows[r][c])
        entries == SelectSeq(HeaderMap,
                             LAMBDA e : Contains(cell_t, RemoveSpaces(e[1])))
        found == FoundBelow(rows, r, c)
    IN IF Len(entries) = 0 \/ found = <<>> THEN sched
       ELSE UpdateEach(sched, entries, found, 1)

RECURSIVE ScanRow(_, _, _, _)
\* for c, cell in enumerate(row)
ScanRow(sched, rows, r, c) ==
    IF c > Len(rows[r]) THEN sched
    ELSE ScanRow(IF rows[r][c] = <<>> THEN sched
                 ELSE ScanKeys(sched, rows, r, c),
                 rows, r, c + 1)

RECURSIVE ScanRows(_, _, _)
\* for r, row in enumerate(rows)
ScanRows(sched, rows, r) ==
    IF r > Len(rows) THEN sched
    ELSE ScanRows(ScanRow(sched, rows, r, 1), rows, r + 1)

\* the body of `for table in tables`
ScanTable(sched, table) == ScanRows(sched, table, 1)

(***************************************************************************)
(* SpecSchedule: extract_schedule_from_table over a document               *)
(***************************************************************************)
\* cells
C_Empty == <<>>

\* 구분
C_Gubun == <<"gu", "bun">>

\* 특별공급 접수
C_Special == <<"teuk", "byeol", "gong", "geup", " ", "jeop", "su">>

\* 계약체결
C_Contract == <<"gye", "yak", "che", "gyeol">>

\* "2025.03.10~2025.03.15"
C_Window == <<"2025.03.10", "~", "2025.03.15">>

SchedRows ==
    { <<C_Gubun, C_Special>>, <<C_Gubun, C_Contract>>,
      <<C_Gubun, <<"2025.03.10">>>>, <<C_Gubun, <<"2025.03.15">>>>,
      <<C_Gubun, C_Window>>, <<C_Gubun, <<"2025.13.40">>>>,
      <<C_Gubun>>, <<C_Special, <<"2025.03.15">>>> }

SchedGenTables == SeqsUpTo(SchedRows, MaxSchedRows)

\* Scenario E: the label at (row 3, col 1), dates at (row 4, col 1) and
\* (row 9, col 1), rows and columns counted from 0
ScenarioETable ==
    << <<C_Gubun, C_Empty>>, <<C_Gubun, C_Empty>>, <<C_Gubun, C_Empty>>,
       <<C_Gubun, C_Special>>, <<C_Gubun, <<"2025.03.10">>>>,
       <<C_Gubun, C_Empty>>, <<C_Gubun, C_Empty>>, <<C_Gubun, C_Empty>>,
       <<C_Gubun, C_Empty>>, <<C_Gubun, <<"2025.03.15">>>> >>

\* tables of a neighbouring page
SchedContextTables ==
    { ScenarioETable,
      << <<C_Special, C_Contract>>, << <<"2024.02.29">>, C_Window >> >>,
      <<>> }

SchedDocs ==
    {<< <<t>> >> : t \in SchedGenTables \cup {ScenarioETable}}
        \cup {<< <<c>>, <<t>> >> : c \in SchedContextTables, t \in SchedGenTables}
        \cup {<< <<t, c>>, <<>> >> : c \in SchedContextTables, t \in SchedGenTables}

InitSchedule ==
    /\ MainIdle
    /\ pdf \in SchedDocs
    /\ CallIdle
    /\ CompIdle
    /\ PriceIdle
    /\ CursorStart
    /\ schedule = EmptySchedule
    /\ offered = [l \in Labels |-> <<>>]
    /\ nupd = 0

SchedScanTable ==
    /\ AtTable
    /\ schedule' = ScanTable(schedule, pdf[page_idx][table_idx])
    /\ table_idx' = table_idx + 1
    /\ UNCHANGED <<mainVars, pdf, pc, page_idx, offered, nupd, callVars, compVars, priceVars>>

SchedNextPage ==
    /\ AtPageEnd
    /\ page_idx' = page_idx + 1
    /\ table_idx' = 1
    /\ UNCHANGED <<mainVars, pdf, pc, schedule, offered, nupd, callVars, compVars, priceVars>>

SchedReturn ==
    /\ AtDocEnd
    /\ pc' = "done"
    /\ UNCHANGED <<mainVars, pdf, page_idx, table_idx, schedule, offered, nupd, callVars, compVars, priceVars>>

NextSchedule == SchedScanTable \/ SchedNextPage \/ SchedReturn

SpecSchedule == InitSchedule /\ [][NextSchedule]_vars

(***************************************************************************)
(* C10                                                                     *)
(***************************************************************************)
SingleTableDoc == Len(pdf) = 1 /\ Len(pdf[1]) = 1

\* the cells of a table that hold a keyword of the label
LabelCells(rows, l) ==
    {rc \in (1..Len(rows)) \X (1..2) :
        /\ rc[2] <= Len(rows[rc[1]])
        /\ \E k \in 1..Len(HeaderMap) :
              /\ HeaderMap[k][2] = l
              /\ Contains(RemoveSpaces(rows[rc[1]][rc[2]]),
                          RemoveSpaces(HeaderMap[k][1]))}

\* the rows below row r whose cell in column c holds a date
DateRowsBelow(rows, r, c) ==
    {rr \in (r + 1)..Len(rows) :
        c <= Len(rows[rr]) /\ FindAllDates(rows[rr][c]) # <<>>}

NearestDateValue(rows, l, r, c) ==
    LET below == DateRowsBelow(rows, r, c) IN
    IF below = {} THEN NoValue
    ELSE LET rr == CHOOSE x \in below : \A y \in below : x <= y
             f == FindAllDates(rows[rr][c])
         IN IF l \in WindowLabels /\ Len(f) >= 2
            THEN <<f[1], " ", "~", " ", f[Len(f)]>>
            ELSE <<f[1]>>

\* C10 as amended: for the table of Scenario E the value stored for
\* 특별공급 접수일 is "2025.03.10"; in general, for a label with one label
\* cell in a one-table document, the stored value is built from the nearest
\* cell below the label cell, in its column, that holds a date (the first
\* date of that cell, or "first ~ last" for the two window labels), and
\* nothing is stored when no cell below holds a date.
C10_StoredIsNearestDateBelow ==
    pc = "done" /\ SingleTableDoc =>
        /\ pdf[1][1] = ScenarioETable => schedule["special"] = <<"2025.03.10">>
        /\ \A l \in Labels :
              LET cells == LabelCells(pdf[1][1], l) IN
              Cardinality(cells) = 1 =>
                  LET rc == CHOOSE x \in cells : TRUE IN
                  schedule[l] = NearestDateValue(pdf[1][1], l, rc[1], rc[2])

\* the run over the table of Scenario E has ended with "2025.03.10" stored
C10_Witness ==
    /\ pc = "done"
    /\ pdf = << <<ScenarioETable>> >>
    /\ schedule["special"] = <<"2025.03.10">>

\* C10 as stated: for the table of Scenario E the stored value is
\* "2025.03.15"; in general the stored value is the latest date found in the
\* label's column below the label cell.
C10_StoredIsLatestDateBelow ==
    pc = "done" /\ SingleTableDoc =>
        /\ pdf[1][1] = ScenarioETable => schedule["special"] = <<"2025.03.15">>
        /\ \A l \in Labels :
              LET cells == LabelCells(pdf[1][1], l) IN
              Cardinality(cells) = 1 =>
                  LET rc == CHOOSE x \in cells : TRUE
                      rows == pdf[1][1]
                      toks == {tok \in DateTokens :
                                 /\ ValidDate(tok)
                                 /\ \E rr \in DateRowsBelow(rows, rc[1], rc[2]) :
                                       Contains(rows[rr][rc[2]], <<tok>>)}
                  IN toks # {} =>
                        /\ schedule[l] # NoValue
                        /\ \A tok \in toks :
                              ~DateLater(tok, FirstDate(schedule[l]))

(***************************************************************************)
(* Text-field extractors.  A text is the sequence of its lines.            *)
(***************************************************************************)
\* 입주자모집공고
K_Marker == <<"ip", "ju", "ja", "mo", "jip", "gong", "go">>

\* the characters of name.strip(" ,·-")
NameStripChars == {" ", ",", "·", "-"}

\* the lines of `text`, each stripped, that contain the marker
MarkerLines(text) ==
    {i \in 1..Len(text) : Contains(Strip(text[i]), K_Marker)}

\* the variant of parse_complex_name that keeps no strip(" ,·-")
ParseComplexNameNoTrim(text) ==
    LET hits == MarkerLines(text) IN
    IF hits = {} THEN NoValue
    ELSE LET i == CHOOSE x \in hits : \A y \in hits : x <= y
         IN CollapseWs(Strip(Replace(Strip(text[i]), K_Marker, <<>>)))

\* app.py parse_complex_name(text); None is NoValue
ParseComplexName(text) ==
    LET hits == MarkerLines(text) IN
    IF hits = {} THEN NoValue
    ELSE LET i == CHOOSE x \in hits : \A y \in hits : x <= y
             raw == Strip(Replace(Strip(text[i]), K_Marker, <<>>))
         IN IF raw = <<>> THEN NoValue
            ELSE StripChars(CollapseWs(raw), NameStripChars)

RECURSIVE ParseComplexNameStFrom(_, _)
\* streamlit_app.py parse_complex_name(text): the loop from line i on
ParseComplexNameStFrom(text, i) ==
    IF i > Len(text) THEN NoValue
    ELSE LET line == Strip(text[i]) IN
         IF Contains(line, K_Marker)
         THEN StripChars(CollapseWs(Strip(Replace(line, K_Marker, <<>>))),
                         NameStripChars)
         ELSE ParseComplexNameStFrom(text, i + 1)

ParseComplexNameSt(text) == ParseComplexNameStFrom(text, 1)

(***************************************************************************)
(* Company names                                                           *)
(***************************************************************************)
\* (주)
K_Ju == <<"(", "ju", ")">>

\* ㈜, one character
K_JuCircle == <<"(ju)">>

\* 건설
K_Geonseol == <<"geon", "seol">>

\* COMPANY_HINT_KEYWORDS: 조합 건설 주식회사 ㈜ (주) 개발 디앤씨 디엔씨 산업
\* 엔지니어링 홀딩스 투자 공사 기업 주택도시
COMPANY_HINT_KEYWORDS ==
    { <<"jo", "hap">>, K_Geonseol, <<"ju", "sik", "hoe", "sa">>, K_JuCircle,
      K_Ju, <<"gae", "bal">>, <<"di", "aen", "ssi">>, <<"di", "en", "ssi">>,
      <<"san", "eop">>, <<"en", "ji", "ni", "eo", "ring">>,
      <<"hol", "ding", "seu">>, <<"tu", "ja">>, <<"gong", "sa">>,
      <<"gi", "eop">>, <<"ju", "taek", "do", "si">> }

\* bad_endings: 기준, 적용기준, 적용 기준, 산정기준
BadEndings ==
    { <<"gi", "jun">>, <<"jeok", "yong", "gi", "jun">>,
      <<"jeok", "yong", " ", "gi", "jun">>, <<"san", "jeong", "gi", "jun">> }

\* strong_keywords: 조합 건설 주식회사 ㈜ (주) 개발 공사 기업
StrongKeywords ==
    { <<"jo", "hap">>, K_Geonseol, <<"ju", "sik", "hoe", "sa">>, K_JuCircle,
      K_Ju, <<"gae", "bal">>, <<"gong", "sa">>, <<"gi", "eop">> }

\* 기간
K_Gigan == <<"gi", "gan">>

\* 광역시, 특별시, "시 ", "군 ", "구 ", "동 ", "로 ", "길 "
AdminWords ==
    { <<"gwang", "yeok", "si">>, <<"teuk", "byeol", "si">>, <<"si", " ">>,
      <<"gun", " ">>, <<"gu", " ">>, <<"dong", " ">>, <<"ro", " ">>,
      <<"gil", " ">> }

ContainsAny(s, kws) == \E k \in kws : Contains(s, k)

\* the length limit of looks_like_company
MaxNameLen == 30

\* looks_like_company(name)
looks_like_company(name0) ==
    IF name0 = <<>> THEN FALSE
    ELSE LET name == Strip(name0) IN
         IF Len(name) > MaxNameLen THEN FALSE
         ELSE IF \E be \in BadEndings : EndsWith(name, be) THEN FALSE
         ELSE IF Contains(name, K_Gigan) /\ ~ContainsAny(name, StrongKeywords)
              THEN FALSE
         ELSE IF /\ ContainsAny(name, AdminWords)
                 /\ ~ContainsAny(name, COMPANY_HINT_KEYWORDS)
              THEN FALSE
         ELSE ContainsAny(name, COMPANY_HINT_KEYWORDS)

(***************************************************************************)
(* SpecText: one call of a text function on an input of a bounded set      *)
(***************************************************************************)
Rep(ch, n) == [i \in 1..n |-> ch]

\* 서울특별시 강남구 ○○동 입주자모집공고
ScenarioALine ==
    <<"seo", "ul", "teuk", "byeol", "si", " ", "gang", "nam", "gu", " ",
      "O", "O", "dong", " ">> \o K_Marker

\* 서울특별시 강남구 ○○동
ScenarioALineName ==
    <<"seo", "ul", "teuk", "byeol", "si", " ", "gang", "nam", "gu", " ",
      "O", "O", "dong">>

ComplexNameLines ==
    { ScenarioALine,
      \* "  - ○○ 아파트 ·  입주자모집공고  "
      <<" ", " ", "-", " ", "O", "O", " ", "a", "pa", "teu", " ", "·", " ",
        " ">> \o K_Marker \o <<" ", " ">>,
      \* "입주자모집공고"
      K_Marker,
      \* "입주자모집공고 · -"
      K_Marker \o <<" ", "·", " ", "-">>,
      \* "○○동\t 입주자모집공고문, "
      <<"O", "O", "dong", "\t", " ">> \o K_Marker \o <<"mun", ",", " ">>,
      \* "입주자 모집공고"
      <<"ip", "ju", "ja", " ", "mo", "jip", "gong", "go">>,
      \* "공급위치 서울"
      <<"gong", "geup", "wi", "chi", " ", "seo", "ul">>,
      \* "입주자모집입주자모집공고공고"
      <<"ip", "ju", "ja", "mo", "jip">> \o K_Marker \o <<"gong", "go">>,
      <<>> }

ComplexNameTexts == SeqsUpTo(ComplexNameLines, MaxTextLines)

NameCores ==
    { \* 대한건설
      <<"dae", "han">> \o K_Geonseol,
      \* ㈜대한건설
      K_JuCircle \o <<"dae", "han">> \o K_Geonseol,
      \* 29, 30 and 31 characters ending in 건설
      Rep("ga", 27) \o K_Geonseol,
      Rep("ga", 28) \o K_Geonseol,
      Rep("ga", 29) \o K_Geonseol,
      \* 무주택기간 적용기준
      <<"mu", "ju", "taek", "gi", "gan", " ", "jeok", "yong", "gi", "jun">>,
      \* 공사기간
      <<"gong", "sa", "gi", "gan">>,
      \* 계약기간
      <<"gye", "yak", "gi", "gan">>,
      \* 서울특별시 강남구
      <<"seo", "ul", "teuk", "byeol", "si", " ", "gang", "nam", "gu">>,
      \* 부산광역시 도시공사
      <<"bu", "san", "gwang", "yeok", "si", " ", "do", "si", "gong", "sa">>,
      <<>> }

PaddedNames ==
    {Rep(" ", a) \o nc \o Rep(" ", b) :
        a \in 0..MaxPad, b \in 0..1, nc \in NameCores}

(***************************************************************************)
(* extract_move_in_date                                                    *)
(***************************************************************************)
\* 입주시기, 입주예정 (입주예정일 holds 입주예정)
MoveInWords == { <<"ip", "ju", "si", "gi">>, <<"ip", "ju", "ye", "jeong">> }

\* the character of s at i, "" outside s
CharAt(s, i) == IF i \in 1..Len(s) THEN s[i] ELSE ""

RECURSIVE SkipSpace(_, _)
\* \s*: the first place from i on that holds no whitespace
SkipSpace(s, i) ==
    IF i <= Len(s) /\ s[i] \in Whitespace THEN SkipSpace(s, i + 1) ELSE i

\* \d{4} at i
FourDigitsAt(s, i) == \A k \in i..(i + 3) : CharAt(s, k) \in DigitChars

\* (\d{1,2}) at b followed by what `after` asks for: the two digits when
\* the pattern goes on after them, else the one digit, <<>> without a match
MonthAt(s, b, after(_)) ==
    IF /\ CharAt(s, b) \in DigitChars /\ CharAt(s, b + 1) \in DigitChars
       /\ after(b + 2)
    THEN <<s[b], s[b + 1]>>
    ELSE IF CharAt(s, b) \in DigitChars /\ after(b + 1) THEN <<s[b]>>
    ELSE <<>>

\* (\d{4})\s*년\s*(\d{1,2})\s*월 matched at i: <<year, month>>, else <<>>
YearMonthAt(s, i) ==
    LET a == SkipSpace(s, i + 4)
        b == SkipSpace(s, a + 1)
        wol(j) == CharAt(s, SkipSpace(s, j)) = "wol"
    IN IF FourDigitsAt(s, i) /\ CharAt(s, a) = "nyeon"
            /\ MonthAt(s, b, wol) # <<>>
       THEN <<SubSeq(s, i, i + 3), MonthAt(s, b, wol)>>
       ELSE <<>>

\* (\d{4})\.(\d{1,2}) matched at i: <<year, month>>, else <<>>
YearDotMonthAt(s, i) ==
    LET any(j) == TRUE
    IN IF FourDigitsAt(s, i) /\ CharAt(s, i + 4) = "."
            /\ MonthAt(s, i + 5, any) # <<>>
       THEN <<SubSeq(s, i, i + 3), MonthAt(s, i + 5, any)>>
       ELSE <<>>

\* re.search of the first pattern: the leftmost match, <<>> without one
SearchYearMonth(s) ==
    LET at == {i \in 1..Len(s) : YearMonthAt(s, i) # <<>>}
    IN IF at = {} THEN <<>>
       ELSE YearMonthAt(s, CHOOSE i \in at : \A j \in at : i <= j)

\* re.search of the second pattern
SearchYearDotMonth(s) ==
    LET at == {i \in 1..Len(s) : YearDotMonthAt(s, i) # <<>>}
    IN IF at = {} THEN <<>>
       ELSE YearDotMonthAt(s, CHOOSE i \in at : \A j \in at : i <= j)

\* f"{year}년 {month}월" of a match
YearMonthText(m) ==
    StrOf(IntOf(m[1])) \o <<"nyeon", " ">> \o StrOf(IntOf(m[2])) \o <<"wol">>

\* the lines gathered by the first loop
RECURSIVE MoveInCandidates(_)
MoveInCandidates(lines) ==
    IF lines = <<>> THEN <<>>
    ELSE LET s == Strip(Head(lines)) IN
         (IF s # <<>> /\ ContainsAny(RemoveSpaces(s), MoveInWords)
          THEN <<s>> ELSE <<>>) \o MoveInCandidates(Tail(lines))

\* the longest first candidate line that is returned whole
MaxMoveInLen == 40

RECURSIVE MoveInFrom(_, _)
\* the second loop from candidate line i on, and what follows it
MoveInFrom(cands, i) ==
    IF i > Len(cands)
    THEN IF cands = <<>> THEN NoValue
         ELSE IF Len(cands[1]) > MaxMoveInLen
              THEN SubSeq(cands[1], 1, MaxMoveInLen) \o <<".", ".", ".">>
              ELSE cands[1]
    ELSE IF SearchYearMonth(cands[i]) # <<>>
         THEN YearMonthText(SearchYearMonth(cands[i]))
    ELSE IF SearchYearDotMonth(cands[i]) # <<>>
         THEN YearMonthText(SearchYearDotMonth(cands[i]))
    ELSE MoveInFrom(cands, i + 1)

\* extract_move_in_date(text), text as its lines
extract_move_in_date(lines) == MoveInFrom(MoveInCandidates(lines), 1)

\* 입주예정
K_Ipjuyejeong == <<"ip", "ju", "ye", "jeong">>

MoveInLines ==
    { \* "입주예정 2027.3"
      K_Ipjuyejeong \o <<" ", "2", "0", "2", "7", ".", "3">>,
      \* "입주예정일 2027년 5월"
      K_Ipjuyejeong \o <<"il", " ", "2", "0", "2", "7", "nyeon", " ", "5", "wol">>,
      \* " 입주시기: 2028 년 03 월 예정"
      <<" ", "ip", "ju", "si", "gi", ":", " ", "2", "0", "2", "8", " ",
        "nyeon", " ", "0", "3", " ", "wol", " ", "ye", "jeong">>,
      \* "입주 예정 12026.11.30"
      <<"ip", "ju", " ", "ye", "jeong", " ", "1", "2", "0", "2", "6", ".",
        "1", "1", ".", "3", "0">>,
      \* "입주예정일 미정"
      K_Ipjuyejeong \o <<"il", " ", "mi", "jeong">>,
      \* "계약일 2025년 1월"
      <<"gye", "yak", "il", " ", "2", "0", "2", "5", "nyeon", " ", "1", "wol">>,
      \* 입주예정 and 38 more characters
      K_Ipjuyejeong \o Rep("ga", 37),
      <<>> }

MoveInTexts == SeqsUpTo(MoveInLines, MaxTextLines)

CallExtractMoveInDate ==
    /\ pc = "call" /\ fn = "extract_move_in_date"
    /\ ret' = extract_move_in_date(arg)
    /\ pc' = "done"
    /\ UNCHANGED <<mainVars, pdf, page_idx, table_idx, schedVars, fn, arg, compVars, priceVars>>

InitText ==
    /\ MainIdle
    /\ pdf = <<>>
    /\ pc = "call"
    /\ page_idx = 0
    /\ table_idx = 0
    /\ schedule = EmptySchedule
    /\ offered = [l \in Labels |-> <<>>]
    /\ nupd = 0
    /\ CompIdle
    /\ PriceIdle
    /\ ret = NoValue
    /\ \/ fn = "app.parse_complex_name" /\ arg \in ComplexNameTexts
       \/ fn = "streamlit_app.parse_complex_name" /\ arg \in ComplexNameTexts
       \/ fn = "looks_like_company" /\ arg \in PaddedNames
       \/ fn = "extract_move_in_date" /\ arg \in MoveInTexts

CallParseComplexName ==
    /\ pc = "call" /\ fn = "app.parse_complex_name"
    /\ ret' = ParseComplexName(arg)
    /\ pc' = "done"
    /\ UNCHANGED <<mainVars, pdf, page_idx, table_idx, schedVars, fn, arg, compVars, priceVars>>

CallParseComplexNameSt ==
    /\ pc = "call" /\ fn = "streamlit_app.parse_complex_name"
    /\ ret' = ParseComplexNameSt(arg)
    /\ pc' = "done"
    /\ UNCHANGED <<mainVars, pdf, page_idx, table_idx, schedVars, fn, arg, compVars, priceVars>>

CallLooksLikeCompany ==
    /\ pc = "call" /\ fn = "looks_like_company"
    /\ ret' = looks_like_company(arg)
    /\ pc' = "done"
    /\ UNCHANGED <<mainVars, pdf, page_idx, table_idx, schedVars, fn, arg, compVars, priceVars>>

NextText ==
    \/ CallParseComplexName
    \/ CallParseComplexNameSt
    \/ CallLooksLikeCompany
    \/ CallExtractMoveInDate

SpecText == InitText /\ [][NextText]_vars

(***************************************************************************)
(* C5: looks_like_company(name) is False for every name longer than 30     *)
(* characters, also when only leading or trailing whitespace makes it so.  *)
(***************************************************************************)
C5_LongNameIsNoCompany ==
    pc = "done" /\ fn = "looks_like_company" /\ Len(arg) > 30 => ret = FALSE

(***************************************************************************)
(* C6                                                                      *)
(***************************************************************************)
ReturnedComplexName ==
    pc = "done"
        /\ fn \in {"app.parse_complex_name", "streamlit_app.parse_complex_name"}

\* the first line of the text that contains the marker, stripped
FirstMarkerLine(text) ==
    Strip(text[CHOOSE i \in MarkerLines(text) : \A j \in MarkerLines(text) : i <= j])

\* C6 as amended: for a text whose first marker line is that of Scenario A
\* the result is "서울특별시 강남구 ○○동", the whole line without the marker;
\* in general the result is the first marker line with the marker removed,
\* whitespace collapsed and leading and trailing characters of {space , · -}
\* stripped, and None when nothing is left of it or no line has the marker.
C6_ComplexNameIsLineWithoutMarker ==
    ReturnedComplexName =>
        IF MarkerLines(arg) = {} THEN ret = NoValue
        ELSE /\ FirstMarkerLine(arg) = ScenarioALine => ret = ScenarioALineName
             /\ ret = StripChars(
                        CollapseWs(Replace(FirstMarkerLine(arg), K_Marker, <<>>)),
                        NameStripChars)

\* a call on a text whose first marker line is Scenario A's has returned
C6_Witness ==
    /\ ReturnedComplexName
    /\ MarkerLines(arg) # {}
    /\ FirstMarkerLine(arg) = ScenarioALine
    /\ ret = ScenarioALineName

\* C6 as stated: for a text whose first marker line is that of Scenario A
\* the result is "○○동", the complex name alone.
C6_ComplexNameAlone ==
    ReturnedComplexName /\ MarkerLines(arg) # {}
        /\ FirstMarkerLine(arg) = ScenarioALine
        => ret = <<"O", "O", "dong">>

(***************************************************************************)
(* Company roles: normalisation of a name, candidates from tables, choice  *)
(***************************************************************************)
\* 시행사, 시공사, 분양대행사
Roles == {"sihaengsa", "sigongsa", "bunyangdaehaengsa"}

\* the characters of name.lstrip("※*•-·[]() "); ※ is "ref", • is "bullet"
NameLStripChars == {"ref", "*", "bullet", "-", "·", "[", "]", "(", ")", " "}

\* name.split("※", 1)[0]
BeforeRef(s) ==
    IF \E i \in 1..Len(s) : s[i] = "ref"
    THEN LET i == CHOOSE x \in 1..Len(s) :
                     s[x] = "ref" /\ \A y \in 1..(x - 1) : s[y] # "ref"
         IN SubSeq(s, 1, i - 1)
    ELSE s

\* normalize_company_name(name)
normalize_company_name(name0) ==
    IF name0 = <<>> THEN <<>>
    ELSE
    LET n1 == Replace(name0, <<"\n">>, <<" ">>)
        n2 == Strip(CollapseWs(n1))
        n3 == LStripChars(n2, NameLStripChars)
        n4 == Replace(Replace(n3, <<" ">> \o K_Ju, K_Ju), K_Ju \o <<" ">>, K_Ju)
        n5 == Replace(Replace(n4, <<" ">> \o K_JuCircle, K_JuCircle),
                      K_JuCircle \o <<" ">>, K_JuCircle)
        n6 == IF EndsWith(n5, <<"(", "ju">>) THEN Append(n5, ")") ELSE n5
        n7 == IF EndsWith(n6, <<"(", "ju">>) THEN Append(n6, ")") ELSE n6
        n8 == IF Contains(n7, <<"ref">>) THEN Strip(BeforeRef(n7)) ELSE n7
    IN Strip(n8)

\* ROLE_KEYWORDS
\* 시행사: 사업주체 시행자 시행사 사업시행자; 시공사: 시공사 시공자 시공;
\* 분양대행사: 분양대행사 분양대행 분양대리점 위탁사
ROLE_KEYWORDS ==
    [role \in Roles |->
        CASE role = "sihaengsa" ->
                { <<"sa", "eop", "ju", "che">>, <<"si", "haeng", "ja">>,
                  <<"si", "haeng", "sa">>,
                  <<"sa", "eop", "si", "haeng", "ja">> }
          [] role = "sigongsa" ->
                { <<"si", "gong", "sa">>, <<"si", "gong", "ja">>,
                  <<"si", "gong">> }
          [] role = "bunyangdaehaengsa" ->
                { <<"bun", "yang", "dae", "haeng", "sa">>,
                  <<"bun", "yang", "dae", "haeng">>,
                  <<"bun", "yang", "dae", "ri", "jeom">>,
                  <<"wi", "tak", "sa">> }]

\* detect_role_from_header(text): the roles, as a set
detect_role_from_header(text) ==
    LET t == RemoveSpaces(text)
    IN {role \in Roles : ContainsAny(t, ROLE_KEYWORDS[role])}

EmptyRes == [role \in Roles |-> <<>>]

\* the width of the DataFrame of a table: that of its longest row
DfWidth(table) ==
    IF table = <<>> THEN 0
    ELSE LET i == CHOOSE x \in 1..Len(table) :
                     \A y \in 1..Len(table) : Len(table[y]) <= Len(table[x])
         IN Len(table[i])

\* pd.DataFrame(table).fillna(""): short rows are padded with empty cells
DataFrame(table) ==
    [i \in 1..Len(table) |->
        [j \in 1..DfWidth(table) |->
            IF j <= Len(table[i]) THEN table[i][j] ELSE <<>>]]

\* df.empty
DfEmpty(df) == Len(df) = 0 \/ Len(df[1]) = 0

\* [normalize_company_name(v) for v in cells if str(v).strip()]
Candidates(cells) ==
    LET kept == SelectSeq(cells, LAMBDA v : Strip(v) # <<>>)
    IN [i \in 1..Len(kept) |-> normalize_company_name(kept[i])]

\* the (c, page_idx) appended for the candidates c that look like a company
CompanyPairs(cands, page) ==
    LET ok == SelectSeq(cands, looks_like_company)
    IN [i \in 1..Len(ok) |-> <<ok[i], page>>]

RECURSIVE VerticalFrom(_, _, _)
\* the loop of extract_from_vertical_label_table from row i on
VerticalFrom(df, i, page) ==
    IF i > Len(df) THEN EmptyRes
    ELSE LET roles == detect_role_from_header(df[i][1])
             add == CompanyPairs(Candidates(Tail(df[i])), page)
             rest == VerticalFrom(df, i + 1, page)
         IN [role \in Roles |->
                (IF role \in roles THEN add ELSE <<>>) \o rest[role]]

\* extract_from_vertical_label_table(df, page_idx)
extract_from_vertical_label_table(df, page) ==
    IF DfEmpty(df) THEN EmptyRes ELSE VerticalFrom(df, 1, page)

\* the cells of column c in the rows from row r on
ColumnFrom(df, r, c) == [k \in 1..(Len(df) - r + 1) |-> df[k + r - 1][c]]

\* all the cells of the rows from row r on, row by row
RECURSIVE CellsFrom(_, _)
CellsFrom(df, r) ==
    IF r > Len(df) THEN <<>> ELSE df[r] \o CellsFrom(df, r + 1)

RECURSIVE HorizontalAnyFrom(_, _, _)
HorizontalAnyFrom(df, c, page) ==
    IF c > Len(df[1]) THEN EmptyRes
    ELSE LET roles == detect_role_from_header(df[1][c])
             add == CompanyPairs(Candidates(CellsFrom(df, 2)), page)
             rest == HorizontalAnyFrom(df, c + 1, page)
         IN [role \in Roles |->
                (IF role \in roles THEN add ELSE <<>>) \o rest[role]]

\* a header table read with every body cell taken as standing under every
\* header cell
HorizontalAnyColumn(df, page) ==
    IF DfEmpty(df) \/ Len(df) < 2 THEN EmptyRes
    ELSE HorizontalAnyFrom(df, 1, page)

RECURSIVE HorizontalFrom(_, _, _)
\* the loop of extract_from_horizontal_header_table from column c on
HorizontalFrom(df, c, page) ==
    IF c > Len(df[1]) THEN EmptyRes
    ELSE LET roles == detect_role_from_header(df[1][c])
             add == CompanyPairs(Candidates(ColumnFrom(df, 2, c)), page)
             rest == HorizontalFrom(df, c + 1, page)
         IN [role \in Roles |->
                (IF role \in roles THEN add ELSE <<>>) \o rest[role]]

\* extract_from_horizontal_header_table(df, page_idx)
extract_from_horizontal_header_table(df, page) ==
    IF DfEmpty(df) \/ Len(df) < 2 THEN EmptyRes
    ELSE HorizontalFrom(df, 1, page)

\* the body of the table loop of extract_company_candidates_from_pdf
AddTableCandidates(result, table, page) ==
    IF table = <<>> \/ DfEmpty(DataFrame(table)) THEN result
    ELSE LET df == DataFrame(table)
             vertical == extract_from_vertical_label_table(df, page)
             horizontal == extract_from_horizontal_header_table(df, page)
         IN [role \in Roles |->
                result[role] \o vertical[role] \o horizontal[role]]

\* the points of choose_final_company
TableBase == 3

LastPageBonus == 2

TextPoints == 2

\* scores[role][name] += pts, on a dict kept as the sequence of its items
AddScore(sc, name, pts) ==
    IF \E i \in 1..Len(sc) : sc[i][1] = name
    THEN [i \in 1..Len(sc) |->
            IF sc[i][1] = name THEN <<name, sc[i][2] + pts>> ELSE sc[i]]
    ELSE Append(sc, <<name, pts>>)

RECURSIVE ScoreTableNoBonus(_, _, _, _)
\* the first loop without the bonus of the last page
ScoreTableNoBonus(sc, vals, k, last) ==
    IF k > Len(vals) THEN sc
    ELSE ScoreTableNoBonus(IF vals[k][1] = <<>> THEN sc
                           ELSE AddScore(sc, vals[k][1], TableBase),
                           vals, k + 1, last)

RECURSIVE ScoreTable(_, _, _, _)
\* the first loop of choose_final_company for one role, from entry k on
ScoreTable(sc, vals, k, last) ==
    IF k > Len(vals) THEN sc
    ELSE LET name == vals[k][1]
             bonus == IF vals[k][2] = last THEN LastPageBonus ELSE 0
         IN ScoreTable(IF name = <<>> THEN sc
                       ELSE AddScore(sc, name, TableBase + bonus),
                       vals, k + 1, last)

RECURSIVE ScoreText(_, _, _)
\* the second loop of choose_final_company for one role, from entry k on
ScoreText(sc, names, k) ==
    IF k > Len(names) THEN sc
    ELSE ScoreText(IF names[k] = <<>> THEN sc
                   ELSE AddScore(sc, names[k], TextPoints),
                   names, k + 1)

\* the scores dict of choose_final_company
ScoresOf(text_c, table_c, last) ==
    [role \in Roles |->
        ScoreText(ScoreTable(<<>>, table_c[role], 1, last), text_c[role], 1)]

\* key(a) < key(b) for key = (score, len(name))
KeyLess(a, b) == a[2] < b[2] \/ (a[2] = b[2] /\ Len(a[1]) < Len(b[1]))

\* sorted(..., reverse=True)[0] with the shorter name preferred on a tie
WinnerShortest(sc) ==
    LET best == {i \in 1..Len(sc) :
                    \A j \in 1..Len(sc) :
                        sc[j][2] < sc[i][2]
                            \/ (sc[j][2] = sc[i][2]
                                    /\ Len(sc[i][1]) <= Len(sc[j][1]))}
    IN sc[CHOOSE i \in best : \A j \in best : i <= j][1]

\* sorted(name_scores.items(), key=(score, len), reverse=True)[0][0]: the
\* sort is stable, the first inserted of the items with the largest key
Winner(sc) ==
    LET best == {i \in 1..Len(sc) : \A j \in 1..Len(sc) : ~KeyLess(sc[i], sc[j])}
    IN sc[CHOOSE i \in best : \A j \in best : i <= j][1]

\* the final dict of choose_final_company
FinalOf(sc) ==
    [role \in Roles |-> IF sc[role] = <<>> THEN <<>> ELSE Winner(sc[role])]

(***************************************************************************)
(* SpecChoose: one call of choose_final_company on candidate lists of a    *)
(* bounded set                                                             *)
(***************************************************************************)
\* 대한건설
N_Daehan == <<"dae", "han">> \o K_Geonseol

\* ㈜대한건설
N_JuDaehan == K_JuCircle \o N_Daehan

\* 한국개발
N_Hanguk == <<"han", "guk", "gae", "bal">>

ChooseNames == {<<>>, N_Daehan, N_JuDaehan, N_Hanguk}

\* the page indices of a document of two pages
PageIdxs == {0, 1}

SeqsWithin(S, n) == {<<>>} \cup SeqsUpTo(S, n)

TableCandLists == SeqsWithin(ChooseNames \X PageIdxs, MaxCands)

TextCandLists == SeqsWithin(ChooseNames, MaxCands)

\* the candidates of the roles other than the one whose lists vary
OtherTableCands == << <<N_Hanguk, 0>> >>

OtherTextCands == <<N_Daehan>>

InitChoose ==
    /\ MainIdle
    /\ CursorIdle
    /\ schedule = EmptySchedule
    /\ offered = [l \in Labels |-> <<>>]
    /\ nupd = 0
    /\ fn = "choose_final_company"
    /\ arg = <<>>
    /\ ret = <<>>
    /\ \E focus \in Roles :
          /\ table_candidates \in
                {[role \in Roles |-> IF role = focus THEN t ELSE OtherTableCands] :
                    t \in TableCandLists}
          /\ text_candidates \in
                {[role \in Roles |-> IF role = focus THEN t ELSE OtherTextCands] :
                    t \in TextCandLists}
    /\ last_page_idx \in PageIdxs
    /\ scores = <<>>
    /\ final = <<>>
    /\ PriceIdle

ChooseFinalCompany ==
    /\ pc = "idle" /\ fn = "choose_final_company"
    /\ scores' = ScoresOf(text_candidates, table_candidates, last_page_idx)
    /\ final' = FinalOf(scores')
    /\ pc' = "done"
    /\ UNCHANGED <<mainVars, pdf, page_idx, table_idx, schedVars, callVars,
                   text_candidates, table_candidates, last_page_idx, priceVars>>

NextChoose == ChooseFinalCompany

SpecChoose == InitChoose /\ [][NextChoose]_vars

\* the non-empty names offered for a role
CandidateNames(role) ==
    ({table_candidates[role][i][1] : i \in 1..Len(table_candidates[role])}
        \cup {text_candidates[role][i] : i \in 1..Len(text_candidates[role])})
    \ {<<>>}

\* what the occurrences of a name add up to for a role
AccumulatedScore(role, name) ==
    3 * Cardinality({i \in 1..Len(table_candidates[role]) :
                        table_candidates[role][i][1] = name})
    + 2 * Cardinality({i \in 1..Len(table_candidates[role]) :
                        table_candidates[role][i] = <<name, last_page_idx>>})
    + 2 * Cardinality({i \in 1..Len(text_candidates[role]) :
                        text_candidates[role][i] = name})

\* C4: the name choose_final_company returns for a role is one of the
\* role's candidates with the largest accumulated score and, among the
\* candidates with that score, one of the longest.
C4_WinnerHasMaxScoreThenMaxLength ==
    pc = "done" /\ fn = "choose_final_company" =>
        \A role \in Roles :
            CandidateNames(role) # {} =>
                /\ final[role] \in CandidateNames(role)
                /\ \A n \in CandidateNames(role) :
                      \/ AccumulatedScore(role, n)
                            < AccumulatedScore(role, final[role])
                      \/ /\ AccumulatedScore(role, n)
                              = AccumulatedScore(role, final[role])
                         /\ Len(n) <= Len(final[role])

\* a call has returned the longer of two names of equal score, the shorter
\* of which was offered first
C4_Witness ==
    /\ pc = "done" /\ fn = "choose_final_company"
    /\ table_candidates["sigongsa"] = << <<N_Daehan, 0>>, <<N_JuDaehan, 0>> >>
    /\ text_candidates["sigongsa"] = <<>>
    /\ last_page_idx = 1
    /\ final["sigongsa"] = N_JuDaehan

(***************************************************************************)
(* SpecCompany: extract_company_from_table over a document.  The names     *)
(* extract_companies_from_text found in the text are an input.             *)
(***************************************************************************)
\* 시공사
K_Sigongsa == <<"si", "gong", "sa">>

\* 시행사 · 시공사
K_BothRoles == <<"si", "haeng", "sa", " ", "·", " ">> \o K_Sigongsa

\* 한국개발 (주
N_HangukOpen == N_Hanguk \o <<" ", "(", "ju">>

\* 한국개발(주)
N_HangukJu == N_Hanguk \o K_Ju

CompCells == {<<>>, K_Sigongsa, K_BothRoles, N_JuDaehan, N_HangukOpen}

\* the tables of one to MaxCompRows rows of two cells
CompGenTables == SeqsUpTo(SeqsOf(CompCells, 2), MaxCompRows)

\* [["시공사", "", ""], ["", "㈜대한건설", ""]]
ScenarioBTable ==
    << <<K_Sigongsa, <<>>, <<>> >>, << <<>>, N_JuDaehan, <<>> >> >>

\* [["시공사"], ["", "㈜대한건설"]]
RaggedTable == << <<K_Sigongsa>>, << <<>>, N_JuDaehan>> >>

CompFixedTables == {ScenarioBTable, RaggedTable, <<>>, << <<>>, <<>> >>}

CompDocs ==
    {<< <<t>> >> : t \in CompGenTables \cup CompFixedTables}
        \cup {<< <<t>>, <<ScenarioBTable>> >> : t \in CompGenTables}
        \cup {<< <<c, RaggedTable>>, <<>> >> : c \in CompFixedTables}
        \cup {<< <<ScenarioBTable>>, <<>> >>, << <<>>, <<ScenarioBTable>> >>,
              << <<ScenarioBTable>>, <<ScenarioBTable>> >>, <<>>}

CompTextCands ==
    {EmptyRes, [role \in Roles |-> IF role = "sigongsa" THEN <<N_JuDaehan>> ELSE <<>>]}

InitCompany ==
    /\ MainIdle
    /\ pdf \in CompDocs
    /\ pc = "start"
    /\ page_idx = 1
    /\ table_idx = 1
    /\ schedule = EmptySchedule
    /\ offered = [l \in Labels |-> <<>>]
    /\ nupd = 0
    /\ fn = "extract_company_from_table"
    /\ arg = <<>>
    /\ ret = <<>>
    /\ text_candidates \in CompTextCands
    /\ table_candidates = <<>>
    /\ last_page_idx = 0
    /\ scores = <<>>
    /\ final = <<>>
    /\ PriceIdle

\* extract_company_candidates_from_pdf up to its loop
CompStart ==
    /\ pc = "start" /\ fn = "extract_company_from_table"
    /\ table_candidates' = EmptyRes
    /\ last_page_idx' = IF Len(pdf) > 0 THEN Len(pdf) - 1 ELSE 0
    /\ pc' = "scan"
    /\ UNCHANGED <<mainVars, pdf, page_idx, table_idx, schedVars, callVars,
                   text_candidates, scores, final, priceVars>>

\* one table of the loop; page_idx of the code counts from 0
CompScanTable ==
    /\ AtTable /\ fn = "extract_company_from_table"
    /\ table_candidates' =
          AddTableCandidates(table_candidates, pdf[page_idx][table_idx],
                             page_idx - 1)
    /\ table_idx' = table_idx + 1
    /\ UNCHANGED <<mainVars, pdf, pc, page_idx, schedVars, callVars,
                   text_candidates, last_page_idx, scores, final,
                   priceVars>>

CompNextPage ==
    /\ AtPageEnd /\ fn = "extract_company_from_table"
    /\ page_idx' = page_idx + 1
    /\ table_idx' = 1
    /\ UNCHANGED <<mainVars, pdf, pc, schedVars, callVars, compVars, priceVars>>

\* the return of the candidates and choose_final_company on them
CompChoose ==
    /\ AtDocEnd /\ fn = "extract_company_from_table"
    /\ scores' = ScoresOf(text_candidates, table_candidates, last_page_idx)
    /\ final' = FinalOf(scores')
    /\ pc' = "done"
    /\ UNCHANGED <<mainVars, pdf, page_idx, table_idx, schedVars, callVars,
                   text_candidates, table_candidates, last_page_idx, priceVars>>

NextCompany == CompStart \/ CompScanTable \/ CompNextPage \/ CompChoose

SpecCompany == InitCompany /\ [][NextCompany]_vars

(***************************************************************************)
(* C7                                                                      *)
(***************************************************************************)
CompanyReturned == pc = "done" /\ fn = "extract_company_from_table"

\* the <<page, table>> positions of the document
DocPositions ==
    UNION {{<<p, k>> : k \in 1..Len(pdf[p])} : p \in 1..Len(pdf)}

\* what the cells of a table offer for a role: the normalized text of every
\* non-blank cell that looks like a company and stands right of a label of
\* the role in the first column, or below a header of the role in the first
\* row
CellPairs(role, table, page) ==
    LET df == DataFrame(table)
        cells == {ij \in (1..Len(df)) \X (1..DfWidth(table)) :
                    /\ Strip(df[ij[1]][ij[2]]) # <<>>
                    /\ looks_like_company(normalize_company_name(df[ij[1]][ij[2]]))
                    /\ \/ ij[2] > 1 /\ role \in detect_role_from_header(df[ij[1]][1])
                       \/ ij[1] > 1 /\ role \in detect_role_from_header(df[1][ij[2]])}
    IN {<<normalize_company_name(df[ij[1]][ij[2]]), page>> : ij \in cells}

OnlyScenarioBTables ==
    /\ DocPositions # {}
    /\ \A pos \in DocPositions : pdf[pos[1]][pos[2]] = ScenarioBTable

\* C7 as amended: the table of Scenario B yields no candidate, its company
\* name standing neither in the row of the label 시공사 nor in its column,
\* and without a text candidate no 시공사 is chosen.  A cell yields a
\* candidate of a role exactly when it is not blank, its normalized text
\* looks like a company, and it stands right of a first-column label of the
\* role in its row or below a first-row header of the role in its column; a
\* candidate found once in the tables and not in the text has score 3, or 5
\* when its table is on the last page.
C7_CandidateFromLabelRowOrHeaderColumn ==
    CompanyReturned =>
        /\ OnlyScenarioBTables =>
              /\ table_candidates = EmptyRes
              /\ text_candidates = EmptyRes => final["sigongsa"] = <<>>
        /\ \A role \in Roles :
              /\ {table_candidates[role][i] : i \in 1..Len(table_candidates[role])}
                    = UNION {CellPairs(role, pdf[pos[1]][pos[2]], pos[1] - 1) :
                                pos \in DocPositions}
              /\ \A i \in 1..Len(table_candidates[role]) :
                    LET name == table_candidates[role][i][1]
                        page == table_candidates[role][i][2]
                    IN (/\ \A j \in 1..Len(table_candidates[role]) :
                              table_candidates[role][j][1] = name => j = i
                        /\ \A j \in 1..Len(text_candidates[role]) :
                              text_candidates[role][j] # name)
                       => \E k \in 1..Len(scores[role]) :
                             /\ scores[role][k][1] = name
                             /\ scores[role][k][2] =
                                   IF page = last_page_idx THEN 5 ELSE 3

\* the run over the one table of Scenario B has ended without a candidate
C7_Witness ==
    /\ CompanyReturned
    /\ pdf = << <<ScenarioBTable>> >>
    /\ text_candidates = EmptyRes
    /\ table_candidates["sigongsa"] = <<>>
    /\ final["sigongsa"] = <<>>

\* C7 as stated: the table of Scenario B yields a 시공사 candidate for
\* ㈜대한건설, with score 3, or 5 when the table is on the last page.
C7_ScenarioBYieldsContractor ==
    CompanyReturned /\ OnlyScenarioBTables /\ Cardinality(DocPositions) = 1
        /\ text_candidates = EmptyRes
        => \E k \in 1..Len(scores["sigongsa"]) :
              /\ scores["sigongsa"][k][1] = normalize_company_name(N_JuDaehan)
              /\ scores["sigongsa"][k][2] =
                    IF \E pos \in DocPositions : pos[1] - 1 = last_page_idx
                    THEN 5 ELSE 3

(***************************************************************************)
(* extract_price_table_from_tables                                         *)
(***************************************************************************)
\* 주택형
K_Jutaekhyeong == <<"ju", "taek", "hyeong">>

\* 약식
K_Yaksik == <<"yak", "sik">>

\* 약식표기
K_Yaksikpyogi == <<"yak", "sik", "pyo", "gi">>

\* 동/호별
K_Donghobyeol == <<"dong", "/", "ho", "byeol">>

\* 층
K_Cheung == <<"cheung">>

\* 구분
K_Gubun == <<"gu", "bun">>

\* 층구분
K_Cheunggubun == K_Cheung \o K_Gubun

\* 해당세대
K_Haedangsedae == <<"hae", "dang", "se", "dae">>

\* 해당세대수
K_Haedangsedaesu == K_Haedangsedae \o <<"su">>

\* 공급금액
K_Gonggeupgeumaek == <<"gong", "geup", "geum", "aek">>

\* 분양금액
K_Bunyanggeumaek == <<"bun", "yang", "geum", "aek">>

\* 옵션, 선택품목, 선택사양
OptionWords ==
    { <<"op", "syeon">>, <<"seon", "taek", "pum", "mok">>,
      <<"seon", "taek", "sa", "yang">> }

\* 합계, 전타입, 부분
SkipRowWords == { <<"hap", "gye">>, <<"jeon", "ta", "ip">>, <<"bu", "bun">> }

\* the keys of col_map: 주택형, 약식표기, 동/호별, 층구분, 해당세대수
ColKeys == {"jutaekhyeong", "yaksikpyogi", "dongho", "cheunggubun",
            "haedangsedaesu"}

\* a col_map gives each key its column, counted from 1, and 0 to a key it
\* does not hold; None and {} are the map that holds no key
NoColMap == [k \in ColKeys |-> 0]

RECURSIVE Concat(_)
\* "".join(cells)
Concat(cells) ==
    IF cells = <<>> THEN <<>> ELSE Head(cells) \o Concat(Tail(cells))

\* "".join(str(x) for x in row.tolist())
RowTxt(row) == Concat(row)

\* "".join(df.astype(str).values.ravel()).replace(" ", "")
AllTxt(df) == RemoveSpaces(Concat([i \in 1..Len(df) |-> Concat(df[i])]))

\* "동" in s and "호" in s, or "동/호" in s
HasDongHo(s) ==
    \/ Contains(s, <<"dong">>) /\ Contains(s, <<"ho">>)
    \/ Contains(s, <<"dong", "/", "ho">>)

\* "층구분" in s or ("층" in s and "구분" in s)
HasFloor(s) ==
    \/ Contains(s, K_Cheunggubun)
    \/ Contains(s, K_Cheung) /\ Contains(s, K_Gubun)

\* the filters without the test for a price word
PassesPreFilterNoPriceWord(df) ==
    LET all_txt == AllTxt(df) IN
    /\ ~ContainsAny(all_txt, OptionWords)
    /\ \/ HasDongHo(all_txt)
       \/ HasFloor(all_txt)
       \/ Contains(all_txt, K_Haedangsedae)

\* the option filter and the price-table filter
PassesPreFilter(df) ==
    LET all_txt == AllTxt(df) IN
    /\ ~ContainsAny(all_txt, OptionWords)
    /\ Contains(all_txt, K_Gonggeupgeumaek)
            \/ Contains(all_txt, K_Bunyanggeumaek)
    /\ \/ HasDongHo(all_txt)
       \/ HasFloor(all_txt)
       \/ Contains(all_txt, K_Haedangsedae)

\* a row holding 주택형 and 약식표기, 약식 표기 or 약식
IsHeaderRow(row_txt) ==
    /\ Contains(row_txt, K_Jutaekhyeong)
    /\ \/ Contains(row_txt, K_Yaksikpyogi)
       \/ Contains(row_txt, <<"yak", "sik", " ", "pyo", "gi">>)
       \/ Contains(row_txt, K_Yaksik)

\* header_idx, counted from 1, and 0 for None
HeaderIdx(df) ==
    IF \E i \in 1..Len(df) : IsHeaderRow(RowTxt(df[i]))
    THEN CHOOSE i \in 1..Len(df) :
            /\ IsHeaderRow(RowTxt(df[i]))
            /\ \A j \in 1..(i - 1) : ~IsHeaderRow(RowTxt(df[j]))
    ELSE 0

\* the joined text of the first n rows of column c, without " " and "\n"
ColumnHdr(df2, c, n) ==
    LET m == IF n < Len(df2) THEN n ELSE Len(df2)
    IN SelectSeq(Concat([r \in 1..m |-> df2[r][c]]),
                 LAMBDA ch : ch # " " /\ ch # "\n")

\* the key the if/elif chain of a header table gives a column, or "none"
HeaderKey(hdr) ==
    IF Contains(hdr, K_Jutaekhyeong) THEN "jutaekhyeong"
    ELSE IF \/ Contains(hdr, K_Yaksikpyogi)
            \/ Contains(hdr, <<"yak", "sik", "pyo", "si">>)
            \/ Contains(hdr, K_Yaksik) THEN "yaksikpyogi"
    ELSE IF HasDongHo(hdr) THEN "dongho"
    ELSE IF HasFloor(hdr) THEN "cheunggubun"
    ELSE IF Contains(hdr, K_Haedangsedaesu) \/ Contains(hdr, K_Haedangsedae)
         THEN "haedangsedaesu"
    ELSE "none"

\* the key the if/elif chain of a continuation table gives a column
ContinuationKey(hdr) ==
    IF HasDongHo(hdr) THEN "dongho"
    ELSE IF HasFloor(hdr) THEN "cheunggubun"
    ELSE IF Contains(hdr, K_Haedangsedaesu) \/ Contains(hdr, K_Haedangsedae)
         THEN "haedangsedaesu"
    ELSE "none"

\* the rows of a header table the column headers are joined from
HeaderRows == 4

\* the rows of a continuation table the column headers are joined from
MaxHeadRows == 5

\* the last column given key k, and 0 when no column is
LastColumnWith(keyOf(_), ncols, k) ==
    LET cs == {c \in 1..ncols : keyOf(c) = k}
    IN IF cs = {} THEN 0 ELSE CHOOSE c \in cs : \A d \in cs : d <= c

\* the col_map of a header table, df2 starting at its header row
HeaderColMap(df2) ==
    LET keyOf(c) == HeaderKey(ColumnHdr(df2, c, HeaderRows))
    IN [k \in ColKeys |-> LastColumnWith(keyOf, Len(df2[1]), k)]

\* the col_map of a continuation table: last_col_map updated with tmp_map
ContinuationColMap(df2, last) ==
    LET keyOf(c) == ContinuationKey(ColumnHdr(df2, c, MaxHeadRows))
        tmp_map == [k \in ColKeys |-> LastColumnWith(keyOf, Len(df2[1]), k)]
    IN [k \in ColKeys |-> IF tmp_map[k] # 0 THEN tmp_map[k] ELSE last[k]]

\* get_val_idx(row, idx), idx counted from 1 and 0 for None
get_val_idx(row, idx) ==
    IF idx = 0 \/ idx > Len(row) THEN <<>> ELSE Strip(row[idx])

\* is_floor_like(s)
is_floor_like(s) ==
    IF s = <<>> THEN FALSE
    ELSE LET s2 == RemoveSpaces(s)
         IN /\ Contains(s2, K_Cheung)
            /\ ~(Contains(s2, <<"dong">>) \/ Contains(s2, <<"ho">>))

\* a floor text left as the cell holds it
FixFloorNone(floor_val) == floor_val

\* a floor value without 층 but with a digit gets 층 appended
FixFloor(floor_val) ==
    IF floor_val = <<>> THEN floor_val
    ELSE LET fv == RemoveSpaces(floor_val)
         IN IF ~Contains(fv, K_Cheung) /\ HasDigit(fv)
            THEN fv \o K_Cheung ELSE floor_val

\* a unit count of more than this many digits is dropped
MaxUnitDigits == 3

\* a smaller amount is no price
MinPrice == 100000

\* candidate_start, as the last column that is not a candidate
CandidateStart(cm) ==
    IF cm["haedangsedaesu"] # 0 THEN cm["haedangsedaesu"]
    ELSE IF cm["cheunggubun"] # 0 THEN cm["cheunggubun"]
    ELSE 0

\* the amount of a cell: int of its digits, 0 without a digit
Amount(cell) == IF DigitsOf(cell) = <<>> THEN 0 ELSE IntOf(DigitsOf(cell))

\* the column of the price of a row, the one with the smallest amount of
\* the candidate columns, and 0 when no column is a candidate
PriceColumnSmallest(row, cm) ==
    LET cs == {c \in (CandidateStart(cm) + 1)..Len(row) :
                  Amount(get_val_idx(row, c)) > MinPrice}
    IN IF cs = {} THEN 0
       ELSE CHOOSE c \in cs :
               \A d \in cs :
                   Amount(get_val_idx(row, c)) <= Amount(get_val_idx(row, d))

\* the column of the price of a row: the first column right of
\* candidate_start with the largest amount above 100000, and 0 without one
PriceColumn(row, cm) ==
    LET cs == {c \in (CandidateStart(cm) + 1)..Len(row) :
                  Amount(get_val_idx(row, c)) > MinPrice}
        best == {c \in cs :
                    \A d \in cs :
                        Amount(get_val_idx(row, d)) <= Amount(get_val_idx(row, c))}
    IN IF cs = {} THEN 0 ELSE CHOOSE c \in best : \A d \in best : c <= d

\* the state the row loop carries: the rows found and the forward-fill values
PriceState(res, ctype, cabbr, cdongho) ==
    [results |-> res, current_type |-> ctype, current_abbr |-> cabbr,
     current_dongho |-> cdongho]

\* one pass of the row loop; src tells the place of the row in the document
ParseRow(st, row, cm, src) ==
    LET row_txt == RowTxt(row) IN
    IF \/ Contains(row_txt, K_Jutaekhyeong)
            /\ (Contains(row_txt, K_Yaksikpyogi) \/ Contains(row_txt, K_Yaksik))
       \/ ContainsAny(row_txt, SkipRowWords)
    THEN st
    ELSE
    LET v_type == get_val_idx(row, cm["jutaekhyeong"])
        ctype == IF v_type # <<>> THEN v_type ELSE st.current_type
        v_abbr == get_val_idx(row, cm["yaksikpyogi"])
        cabbr == IF v_abbr # <<>> THEN v_abbr ELSE st.current_abbr
        raw_dongho == get_val_idx(row, cm["dongho"])
        floor0 == get_val_idx(row, cm["cheunggubun"])
        floor1 == IF raw_dongho # <<>> /\ is_floor_like(raw_dongho)
                        /\ ~is_floor_like(floor0)
                  THEN raw_dongho ELSE floor0
        cdongho == IF raw_dongho # <<>> /\ ~is_floor_like(raw_dongho)
                   THEN raw_dongho ELSE st.current_dongho
        floor_val == FixFloor(floor1)
        hae0 == get_val_idx(row, cm["haedangsedaesu"])
        haedang_val == IF Len(DigitsOf(hae0)) > MaxUnitDigits THEN <<>> ELSE hae0
        pcol == PriceColumn(row, cm)
        rec == [jutaekhyeong |-> ctype, yaksikpyogi |-> cabbr,
                dongho |-> cdongho, cheunggubun |-> floor_val,
                haedangsedaesu |-> haedang_val,
                sogye |-> get_val_idx(row, pcol), src |-> src]
        admitted == /\ pcol # 0
                    /\ cdongho # <<>> \/ floor_val # <<>> \/ haedang_val # <<>>
                    /\ ctype # <<>> \/ cabbr # <<>>
    IN PriceState(IF admitted THEN Append(st.results, rec) ELSE st.results,
                  ctype, cabbr, cdongho)

RECURSIVE ParseRows(_, _, _, _, _)
\* the row loop over df2 from row r on; pos is <<page, table, rows of df
\* before df2>>
ParseRows(st, df2, r, cm, pos) ==
    IF r > Len(df2) THEN st
    ELSE ParseRows(ParseRow(st, df2[r], cm, <<pos[1], pos[2], pos[3] + r>>),
                   df2, r + 1, cm, pos)

\* col_map of the table
ColMapOf(table, last) ==
    LET df == DataFrame(table)
        h == HeaderIdx(df)
    IN IF h # 0 THEN HeaderColMap(SubSeq(df, h, Len(df)))
       ELSE IF last = NoColMap THEN NoColMap
       ELSE ContinuationColMap(df, last)

\* the rows and forward-fill values after the table at page p, place k
ParseTable(st, table, cm, p, k) ==
    LET df == DataFrame(table)
        h == HeaderIdx(df)
    IN IF cm = NoColMap THEN st
       ELSE IF h # 0
            THEN ParseRows(st, SubSeq(df, h, Len(df)), 2, cm, <<p, k, h - 1>>)
            ELSE ParseRows(st, df, 1, cm, <<p, k, 0>>)

\* a key without the floor
DedupKeyNoFloor(rec) == <<rec.jutaekhyeong, rec.yaksikpyogi, rec.dongho>>

\* the key of the clean-up step
DedupKey(rec) ==
    <<rec.jutaekhyeong, rec.yaksikpyogi, rec.dongho, rec.cheunggubun>>

\* int of the digits of the price of a row, 0 without a digit
PriceInt(rec) == Amount(rec.sogye)

RECURSIVE DedupMovingFrom(_, _, _)
\* a clean-up loop in which a row that wins over the row of its key goes
\* to the end of the list
DedupMovingFrom(dedup, rows, i) ==
    IF i > Len(rows) THEN dedup
    ELSE LET rec == rows[i]
             hit == {j \in 1..Len(dedup) : DedupKey(dedup[j]) = DedupKey(rec)}
         IN DedupMovingFrom(
                IF hit = {} THEN Append(dedup, rec)
                ELSE LET j == CHOOSE x \in hit : TRUE
                     IN IF PriceInt(rec) > PriceInt(dedup[j])
                        THEN Append(SelectSeq(dedup,
                                        LAMBDA d : DedupKey(d) # DedupKey(rec)),
                                    rec)
                        ELSE dedup,
                rows, i + 1)

RECURSIVE DedupFrom(_, _, _)
\* the clean-up loop from row i on; dedup is the dict as its values in order
DedupFrom(dedup, rows, i) ==
    IF i > Len(rows) THEN dedup
    ELSE LET rec == rows[i]
             hit == {j \in 1..Len(dedup) : DedupKey(dedup[j]) = DedupKey(rec)}
         IN DedupFrom(
                IF hit = {} THEN Append(dedup, rec)
                ELSE LET j == CHOOSE x \in hit : TRUE
                     IN IF PriceInt(rec) > PriceInt(dedup[j])
                        THEN [dedup EXCEPT ![j] = rec] ELSE dedup,
                rows, i + 1)

\* final_rows
Dedup(rows) == DedupFrom(<<>>, rows, 1)

(***************************************************************************)
(* SpecPrice: extract_price_table_from_tables over a document              *)
(***************************************************************************)
\* 84A, 84B
V_84A == <<"8", "4", "A">>

V_84B == <<"8", "4", "B">>

\* 101동
V_101Dong == <<"1", "0", "1", "dong">>

\* 1층, 2층, 4층, 5층
V_1F == <<"1", "cheung">>

V_2F == <<"2", "cheung">>

V_4F == <<"4", "cheung">>

V_5F == <<"5", "cheung">>

P_123456789 == <<"1", "2", "3", "4", "5", "6", "7", "8", "9">>

P_98765432 == <<"9", "8", "7", "6", "5", "4", "3", "2">>

P_111222333 == <<"1", "1", "1", "2", "2", "2", "3", "3", "3">>

P_130000000 == <<"1", "3", "0", "0", "0", "0", "0", "0", "0">>

\* 공급금액소계
K_PriceHeader == K_Gonggeupgeumaek \o <<"so", "gye">>

\* 계약금
K_Deposit == <<"gye", "yak", "geum">>

\* 주택형 | 약식표기 | 동/호별 | 층구분 | 해당세대수 | 공급금액소계
Header6 ==
    <<K_Jutaekhyeong, K_Yaksikpyogi, K_Donghobyeol, K_Cheunggubun,
      K_Haedangsedaesu, K_PriceHeader>>

\* 주택형 | 약식표기 | 공급금액소계 | 층구분 | 해당세대수 | 계약금
HeaderPriceLeft ==
    <<K_Jutaekhyeong, K_Yaksikpyogi, K_PriceHeader, K_Cheunggubun,
      K_Haedangsedaesu, K_Deposit>>

DataRows6 ==
    { <<V_84A, V_84A, V_101Dong, V_1F, <<"1", "2">>, P_123456789>>,
      << <<>>, <<>>, <<>>, V_2F, <<"3", "3">>, P_98765432>>,
      << <<>>, <<>>, <<>>, <<"3">>, <<"7">>, P_111222333>>,
      <<V_84A, V_84A, V_101Dong, V_1F, <<"1", "2">>, P_130000000>>,
      \* 합계
      << <<"hap", "gye">>, <<>>, <<>>, <<>>, <<"5", "2">>, P_123456789>>,
      <<V_84B, V_84B, V_2F, <<>>, <<"1", "2", "3", "4">>, P_98765432>> }

PriceHeaderTables ==
    {<<Header6>> \o q : q \in SeqsUpTo(DataRows6, MaxPriceRows)}

\* Scenario C: the price column right of the unit counts
ScenarioCTable ==
    << Header6,
       <<V_84A, V_84A, V_101Dong, V_1F, <<"1", "2">>, P_123456789>>,
       << <<>>, <<>>, <<>>, V_2F, <<"3", "3">>, P_98765432>>,
       << <<>>, <<>>, <<>>, <<"3">>, <<"7">>, P_111222333>> >>

\* Scenario C with the price column left of the floors and unit counts and
\* a deposit of six digits to the right
ScenarioCLeftTable ==
    << HeaderPriceLeft,
       <<V_84A, V_84A, P_123456789, V_1F, <<"1", "2">>,
         <<"2", "0", "0", "0", "0", "0">> >>,
       << <<>>, <<>>, P_98765432, V_2F, <<"3", "3">>,
         <<"3", "0", "0", "0", "0", "0">> >>,
       << <<>>, <<>>, P_111222333, <<"3">>, <<"7">>,
         <<"2", "5", "0", "0", "0", "0">> >> >>

\* a headerless first row with the words the filters ask for and no column
\* label: 구분 | ... | 공급금액
NoteRow(n) == [j \in 1..n |-> IF j = 1 THEN K_Gubun
                              ELSE IF j = n THEN K_Gonggeupgeumaek ELSE <<>>]

\* a headerless first row that labels its columns:
\* 구분 | | 층구분 | 해당세대수 | 공급금액
LabelRow5 == <<K_Gubun, <<>>, K_Cheunggubun, K_Haedangsedaesu, K_Gonggeupgeumaek>>

\* rows of a continuation table that lost the 동/호별 column
ContRows5 ==
    { <<V_84B, V_84B, V_4F, <<"5">>, P_111222333>>,
      << <<>>, <<>>, V_5F, <<"6">>, P_98765432>> }

\* a continuation table whose rows go on under the 주택형 of the page
\* before, the cells of 주택형 and 약식표기 empty:
\*  | | 층구분 | 해당세대수 | 공급금액
MergedTypeTable5 ==
    << << <<>>, <<>>, K_Cheunggubun, K_Haedangsedaesu, K_Gonggeupgeumaek>>,
       << <<>>, <<>>, V_5F, <<"6">>, P_98765432>> >>

ContinuationTables ==
    {MergedTypeTable5} \cup
    {<<h>> \o q : h \in {NoteRow(5), LabelRow5},
                  q \in SeqsUpTo(ContRows5, MaxPriceRows)}
        \cup {<<NoteRow(6)>> \o q : q \in SeqsUpTo(DataRows6, 1)}
        \cup { << NoteRow(7),
                  <<V_84B, V_84B, V_101Dong, V_4F, <<"5">>, P_111222333,
                    P_130000000>> >>,
               << NoteRow(7),
                  <<V_84B, V_84B, V_101Dong, V_4F, <<"5">>, P_130000000,
                    P_111222333>> >>,
               << NoteRow(4), <<V_84B, V_4F, <<"5">>, P_111222333>> >> }

\* a headerless table of the six columns of Header6 that labels three
\* of them and holds no price word:  | | 동/호별 | 층구분 | 해당세대수 |
NoPriceWordTable6 ==
    << << <<>>, <<>>, K_Donghobyeol, K_Cheunggubun, K_Haedangsedaesu, <<>> >>,
       <<V_84B, V_84B, V_101Dong, V_4F, <<"5">>, P_111222333>> >>

\* tables the filters turn away: an option table, tables without a price
\* word, a table with a price word and no word of 동/호, 층구분 or 해당세대,
\* a table of one row, an empty table
OtherTables ==
    { << Header6, << <<"op", "syeon">>, <<>>, <<>>, V_1F, <<"1">>, P_123456789>> >>,
      << <<K_Jutaekhyeong, K_Yaksikpyogi, K_Cheunggubun>>, <<V_84A, V_84A, V_1F>> >>,
      << <<K_Jutaekhyeong, K_Yaksikpyogi, K_Gonggeupgeumaek>>,
         <<V_84A, V_84A, P_123456789>> >>,
      NoPriceWordTable6,
      << Header6 >>,
      <<>> }

\* a headerless table of the six columns of Header6
ContinuationTable6 ==
    << NoteRow(6), <<V_84B, V_84B, V_101Dong, V_4F, <<"5">>, P_111222333>> >>

PriceContextTables == {ScenarioCTable, ScenarioCLeftTable}

PriceSecondTables ==
    ContinuationTables \cup OtherTables \cup PriceContextTables

PriceDocs ==
    {<< <<t>> >> : t \in PriceHeaderTables \cup PriceSecondTables}
        \cup {<< <<c, t>> >> : c \in PriceContextTables, t \in PriceSecondTables}
        \cup {<< <<c>>, <<t>> >> : c \in PriceContextTables,
                                   t \in PriceSecondTables}
        \cup {<< <<t>>, <<c>> >> : c \in PriceContextTables,
                                   t \in PriceHeaderTables}
        \cup {<< <<ScenarioCTable, t>>, <<ContinuationTable6>> >> :
                    t \in OtherTables}
        \cup {<< <<ScenarioCTable>>, <<t, ContinuationTable6>> >> :
                    t \in OtherTables}
        \cup {<< <<t, ScenarioCTable>> >> : t \in ContinuationTables}
        \cup {<< <<ScenarioCTable, <<LabelRow5>> \o q>>, <<ContinuationTable6>> >> :
                    q \in SeqsOf(ContRows5, 1)}

PriceStart ==
    /\ results = <<>>
    /\ last_col_map = NoColMap
    /\ col_map = NoColMap
    /\ current_type = <<>>
    /\ current_abbr = <<>>
    /\ current_dongho = <<>>

InitPrice ==
    /\ MainIdle
    /\ pdf \in PriceDocs
    /\ CursorStart
    /\ schedule = EmptySchedule
    /\ offered = [l \in Labels |-> <<>>]
    /\ nupd = 0
    /\ fn = "extract_price_table_from_tables"
    /\ arg = <<>>
    /\ ret = <<>>
    /\ CompIdle
    /\ PriceStart
    /\ col_centers = <<>>
    /\ header_y = 0
    /\ layout_fails = FALSE
    /\ price_rows = <<>>

\* a pass of the table loop that keeps the map of a continuation table as
\* the map the next one starts from
PriceScanTableCarrying ==
    /\ AtTable
    /\ fn \in {"extract_price_table_from_tables", "main"}
    /\ LET table == pdf[page_idx][table_idx]
           cm == ColMapOf(table, last_col_map)
           st == ParseTable(PriceState(results, current_type, current_abbr,
                                       current_dongho),
                            table, cm, page_idx, table_idx)
       IN IF Len(table) >= 2 /\ PassesPreFilter(DataFrame(table))
          THEN /\ col_map' = cm
               /\ last_col_map' = cm
               /\ results' = st.results
               /\ current_type' = st.current_type
               /\ current_abbr' = st.current_abbr
               /\ current_dongho' = st.current_dongho
          ELSE UNCHANGED <<col_map, last_col_map, results, fillVars>>
    /\ table_idx' = table_idx + 1
    /\ UNCHANGED <<mainVars, pdf, pc, page_idx, schedVars, callVars, compVars,
                   col_centers, header_y, layout_fails, price_rows>>

\* one pass of the table loop
PriceScanTable ==
    /\ AtTable
    /\ fn \in {"extract_price_table_from_tables", "main"}
    /\ LET table == pdf[page_idx][table_idx]
           cm == ColMapOf(table, last_col_map)
           st == ParseTable(PriceState(results, current_type, current_abbr,
                                       current_dongho),
                            table, cm, page_idx, table_idx)
       IN IF Len(table) >= 2 /\ PassesPreFilter(DataFrame(table))
          THEN /\ col_map' = cm
               /\ last_col_map' = IF HeaderIdx(DataFrame(table)) # 0
                                  THEN cm ELSE last_col_map
               /\ results' = st.results
               /\ current_type' = st.current_type
               /\ current_abbr' = st.current_abbr
               /\ current_dongho' = st.current_dongho
          ELSE UNCHANGED <<col_map, last_col_map, results, fillVars>>
    /\ table_idx' = table_idx + 1
    /\ UNCHANGED <<mainVars, pdf, pc, page_idx, schedVars, callVars, compVars,
                   col_centers, header_y, layout_fails, price_rows>>

PriceNextPage ==
    /\ AtPageEnd
    /\ fn \in {"extract_price_table_from_tables", "main"}
    /\ page_idx' = page_idx + 1
    /\ table_idx' = 1
    /\ UNCHANGED <<mainVars, pdf, pc, schedVars, callVars, compVars, priceVars>>

\* the clean-up step and the return
PriceReturn ==
    /\ AtDocEnd
    /\ fn \in {"extract_price_table_from_tables", "main"}
    /\ price_rows' = Dedup(results)
    /\ pc' = "done"
    /\ UNCHANGED <<mainVars, pdf, page_idx, table_idx, schedVars, callVars, compVars,
                   results, last_col_map, col_map, fillVars, col_centers,
                   header_y, layout_fails>>

NextPrice == PriceScanTable \/ PriceNextPage \/ PriceReturn

SpecPrice == InitPrice /\ [][NextPrice]_vars

(***************************************************************************)
(* C2, C8, C9                                                              *)
(***************************************************************************)
PriceReturned == pc = "done" /\ fn = "extract_price_table_from_tables"

\* two rows agree on 주택형, 약식표기, 동/호별 and 층구분
SameKey(a, b) ==
    /\ a.jutaekhyeong = b.jutaekhyeong
    /\ a.yaksikpyogi = b.yaksikpyogi
    /\ a.dongho = b.dongho
    /\ a.cheunggubun = b.cheunggubun

\* C2: in the list extract_price_table_from_tables returns no two rows share
\* the key (주택형, 약식표기, 동/호별, 층구분), every key of an admitted row
\* has its row, and the digits of the price of the row of a key are the
\* largest of the digits of the prices of the admitted rows of that key.
C2_DedupKeepsOneRowOfMaxPrice ==
    PriceReturned =>
        /\ \A i, j \in 1..Len(price_rows) :
              SameKey(price_rows[i], price_rows[j]) => i = j
        /\ \A r \in 1..Len(results) :
              \E i \in 1..Len(price_rows) :
                  /\ SameKey(price_rows[i], results[r])
                  /\ Amount(results[r].sogye) <= Amount(price_rows[i].sogye)
        /\ \A i \in 1..Len(price_rows) :
              \E r \in 1..Len(results) : price_rows[i] = results[r]

\* the extractor has returned after a later row of a larger price took the
\* place of an earlier row of its key
C2_Witness ==
    /\ PriceReturned
    /\ \E r, s \in 1..Len(results) :
          /\ r < s
          /\ SameKey(results[r], results[s])
          /\ Amount(results[r].sogye) < Amount(results[s].sogye)
          /\ \E i \in 1..Len(price_rows) : price_rows[i] = results[s]
    /\ Len(price_rows) < Len(results)

\* the places <<page, table>> of the two tables of a document of two tables
FirstPlace ==
    CHOOSE a \in DocPositions :
        \A b \in DocPositions : a[1] < b[1] \/ (a[1] = b[1] /\ a[2] <= b[2])

SecondPlace == CHOOSE b \in DocPositions : b # FirstPlace

TableAt(place) == pdf[place[1]][place[2]]

\* a header table that is read, followed by a headerless table that passes
\* the filters
HeaderThenContinuation ==
    /\ Cardinality(DocPositions) = 2
    /\ Len(TableAt(FirstPlace)) >= 2
    /\ PassesPreFilter(DataFrame(TableAt(FirstPlace)))
    /\ HeaderIdx(DataFrame(TableAt(FirstPlace))) # 0
    /\ Len(TableAt(SecondPlace)) >= 2
    /\ PassesPreFilter(DataFrame(TableAt(SecondPlace)))
    /\ HeaderIdx(DataFrame(TableAt(SecondPlace))) = 0

\* C8: a headerless table with one column less than the header table before
\* it is read with the columns mapped after the 동/호별 column moved one to
\* the left; a headerless table whose number of columns differs in another
\* way gives no row.
C8_ContinuationColumnsShift ==
    PriceReturned /\ HeaderThenContinuation /\ last_col_map["dongho"] # 0 =>
        LET w1 == DfWidth(TableAt(FirstPlace))
            w2 == DfWidth(TableAt(SecondPlace))
        IN /\ w2 = w1 - 1 =>
                \A k \in ColKeys :
                    last_col_map[k] > last_col_map["dongho"]
                        => col_map[k] = last_col_map[k] - 1
           /\ w2 # w1 /\ w2 # w1 - 1 =>
                \A r \in 1..Len(results) :
                    <<results[r].src[1], results[r].src[2]>> # SecondPlace

\* a cell of digits only
AllDigits(cell) == cell # <<>> /\ \A i \in 1..Len(cell) : cell[i] \in DigitChars

\* the rows below the header whose cell in column c is of digits only
DigitRows(df, h, c) ==
    {r \in (h + 1)..Len(df) : AllDigits(Strip(df[r][c]))}

\* the k-th smallest of the lengths of the cells of column c in the rows R
KthLen(df, R, c, k) ==
    CHOOSE v \in {Len(Strip(df[r][c])) : r \in R} :
        /\ Cardinality({r \in R : Len(Strip(df[r][c])) < v}) < k
        /\ Cardinality({r \in R : Len(Strip(df[r][c])) <= v}) >= k

\* twice the median of those lengths
TwiceMedianLen(df, R, c) ==
    LET n == Cardinality(R)
    IN IF n % 2 = 1 THEN 2 * KthLen(df, R, c, (n + 1) \div 2)
       ELSE KthLen(df, R, c, n \div 2) + KthLen(df, R, c, n \div 2 + 1)

\* a price column: three values of digits only or more, of median length 7
\* or more
QualifiesAsPrice(df, h, c) ==
    /\ Cardinality(DigitRows(df, h, c)) >= 3
    /\ TwiceMedianLen(df, DigitRows(df, h, c), c) >= 14

\* C9: in a price table with one column that qualifies as price column and
\* another column of small numbers, the price of every row returned is the
\* value of its table row in the qualifying column.
C9_PriceFromQualifyingColumn ==
    PriceReturned /\ SingleTableDoc /\ Len(pdf[1][1]) >= 2 =>
        LET df == DataFrame(pdf[1][1])
            h == HeaderIdx(df)
            qs == {c \in 1..DfWidth(pdf[1][1]) : QualifiesAsPrice(df, h, c)}
        IN (/\ PassesPreFilter(df)
            /\ h # 0
            /\ Cardinality(qs) = 1
            /\ \E c \in 1..DfWidth(pdf[1][1]) :
                  c \notin qs /\ Cardinality(DigitRows(df, h, c)) >= 3)
           => \A i \in 1..Len(price_rows) :
                 \A q \in qs :
                     price_rows[i].sogye = Strip(df[price_rows[i].src[3]][q])

(***************************************************************************)
(* extract_price_table_with_layout.  A raw word is a record of its box     *)
(* x0, y0, x1, y1, in points, and its text.  The centre x of a word is     *)
(* kept in half points and its centre y in 64ths of a point, so that the   *)
(* means group_by_y takes stay whole.                                      *)
(***************************************************************************)
\* 64ths of a point in a point
YUnit == 64

\* tol=2.0 of group_by_y, in points
GroupTol == 2

\* rows down to header_y + 1 are no data rows, in points
HeaderMargin == 1

\* a word further than this from the centre of a column is not of the
\* column, in points
MaxColumnDist == 50

\* a smaller amount is no price for the layout path
MinLayoutPrice == 1000000

\* None for header_y, and the x of a column col_centers does not hold
NoCoord == 0 - 1

\* the columns of col_centers: those of col_map and 공급금액 소계
CenterKeys == ColKeys \cup {"sogye"}

NoCenters == [k \in CenterKeys |-> NoCoord]

Abs(n) == IF n < 0 THEN 0 - n ELSE n

\* the words list: centre and stripped text of the raw words with a text
WordsOf(raw_words) ==
    LET kept == SelectSeq(raw_words, LAMBDA w : Strip(w.text) # <<>>)
    IN [i \in 1..Len(kept) |->
            [x |-> kept[i].x0 + kept[i].x1,
             y |-> (YUnit \div 2) * (kept[i].y0 + kept[i].y1),
             text |-> Strip(kept[i].text)]]

\* sorted(words, key=y): the sort is stable
SortedByY(words) ==
    LET rank(i) == Cardinality({j \in 1..Len(words) :
                        \/ words[j].y < words[i].y
                        \/ words[j].y = words[i].y /\ j < i}) + 1
    IN [k \in 1..Len(words) |->
            words[CHOOSE i \in 1..Len(words) : rank(i) = k]]

RECURSIVE GroupFrom(_, _, _, _, _)
\* the loop of group_by_y from word i on: rows so far, the row being
\* gathered and its running y
GroupFrom(ws, i, rows, cur, last_y) ==
    IF i > Len(ws)
    THEN IF cur = <<>> THEN rows ELSE Append(rows, [y |-> last_y, words |-> cur])
    ELSE IF cur = <<>>
         THEN GroupFrom(ws, i + 1, rows, <<ws[i]>>, ws[i].y)
         ELSE IF Abs(ws[i].y - last_y) <= GroupTol * YUnit
              THEN GroupFrom(ws, i + 1, rows, Append(cur, ws[i]),
                             (last_y + ws[i].y) \div 2)
              ELSE GroupFrom(ws, i + 1,
                             Append(rows, [y |-> last_y, words |-> cur]),
                             <<ws[i]>>, ws[i].y)

\* group_by_y(words, tol=2.0)
group_by_y(words) == GroupFrom(SortedByY(words), 1, <<>>, <<>>, NoCoord)

\* "".join(w["text"] for w in row_words)
RowText(row_words) == Concat([i \in 1..Len(row_words) |-> row_words[i].text])

\* page.get_text(): the texts of the raw words, a line each
PageText(raw_words) ==
    Concat([i \in 1..Len(raw_words) |-> raw_words[i].text \o <<"\n">>])

\* the column the if/elif chain of the header row gives a word, or "none"
CenterKey(text) ==
    LET t == RemoveSpaces(text) IN
    IF Contains(t, K_Jutaekhyeong) THEN "jutaekhyeong"
    ELSE IF Contains(t, K_Yaksik) THEN "yaksikpyogi"
    ELSE IF Contains(t, <<"dong">>) /\ Contains(t, <<"ho">>) THEN "dongho"
    ELSE IF HasFloor(t) THEN "cheunggubun"
    ELSE IF Contains(t, K_Haedangsedae) THEN "haedangsedaesu"
    ELSE IF Contains(t, K_Gonggeupgeumaek) /\ Contains(t, <<"so", "gye">>)
         THEN "sogye"
    ELSE "none"

\* new_centers of a header row
NewCenters(row_words) ==
    LET lastOf(k) ==
            LET is == {i \in 1..Len(row_words) : CenterKey(row_words[i].text) = k}
            IN IF is = {} THEN NoCoord
               ELSE row_words[CHOOSE i \in is : \A j \in is : j <= i].x
        right == CHOOSE i \in 1..Len(row_words) :
                    /\ \A j \in 1..Len(row_words) : row_words[j].x <= row_words[i].x
                    /\ \A j \in 1..(i - 1) : row_words[j].x < row_words[i].x
    IN [k \in CenterKeys |->
            IF k = "sogye" /\ lastOf(k) = NoCoord THEN row_words[right].x
            ELSE lastOf(k)]

\* a row holding 주택형 and 약식표기 or 약식
IsLayoutHeader(row_text) ==
    /\ Contains(row_text, K_Jutaekhyeong)
    /\ Contains(row_text, K_Yaksikpyogi) \/ Contains(row_text, K_Yaksik)

\* the first header row of the rows of a page, and 0 without one
LayoutHeaderRow(rows) ==
    IF \E i \in 1..Len(rows) : IsLayoutHeader(RowText(rows[i].words))
    THEN CHOOSE i \in 1..Len(rows) :
            /\ IsLayoutHeader(RowText(rows[i].words))
            /\ \A j \in 1..(i - 1) : ~IsLayoutHeader(RowText(rows[j].words))
    ELSE 0

\* pick_nearest(col_name) in a row
pick_nearest(row_words, centers, col_name) ==
    IF centers[col_name] = NoCoord THEN <<>>
    ELSE LET near == {i \in 1..Len(row_words) :
                        Abs(row_words[i].x - centers[col_name])
                            <= 2 * MaxColumnDist}
             best == {i \in near :
                        \A j \in near :
                            Abs(row_words[i].x - centers[col_name])
                                <= Abs(row_words[j].x - centers[col_name])}
         IN IF near = {} THEN <<>>
            ELSE row_words[CHOOSE i \in best : \A j \in best : i <= j].text

\* 합계, 전타입, 부분, 옵션, 선택품목, 선택사양
LayoutSkipWords == SkipRowWords \cup OptionWords

\* one pass of the data-row loop of a page; src tells the place of the row
LayoutRow(st, row_words, centers, src) ==
    IF ContainsAny(RowText(row_words), LayoutSkipWords) THEN st
    ELSE
    LET v_type == pick_nearest(row_words, centers, "jutaekhyeong")
        v_abbr == pick_nearest(row_words, centers, "yaksikpyogi")
        v_dongho == pick_nearest(row_words, centers, "dongho")
        v_floor0 == pick_nearest(row_words, centers, "cheunggubun")
        v_hae0 == pick_nearest(row_words, centers, "haedangsedaesu")
        v_price0 == pick_nearest(row_words, centers, "sogye")
        ctype == IF v_type # <<>> THEN v_type ELSE st.current_type
        cabbr == IF v_abbr # <<>> THEN v_abbr ELSE st.current_abbr
        cdongho == IF v_dongho # <<>> THEN v_dongho ELSE st.current_dongho
        v_floor1 == IF is_floor_like(v_dongho) /\ ~is_floor_like(v_floor0)
                    THEN v_dongho ELSE v_floor0
        v_floor == FixFloor(v_floor1)
        v_haedang == IF Len(DigitsOf(v_hae0)) > MaxUnitDigits
                     THEN <<>> ELSE v_hae0
        v_price == IF Amount(v_price0) <= MinLayoutPrice THEN <<>> ELSE v_price0
        rec == [jutaekhyeong |-> ctype, yaksikpyogi |-> cabbr,
                dongho |-> cdongho, cheunggubun |-> v_floor,
                haedangsedaesu |-> v_haedang, sogye |-> v_price, src |-> src]
        admitted == /\ ctype # <<>> \/ cabbr # <<>>
                    /\ cdongho # <<>> \/ v_floor # <<>> \/ v_haedang # <<>>
                    /\ v_price # <<>>
    IN PriceState(IF admitted THEN Append(st.results, rec) ELSE st.results,
                  ctype, cabbr, cdongho)

RECURSIVE LayoutRows(_, _, _, _, _, _)
\* the data-row loop of a page from row i on
LayoutRows(st, rows, i, centers, hy, p) ==
    IF i > Len(rows) THEN st
    ELSE LayoutRows(
            IF hy # NoCoord /\ rows[i].y <= hy + HeaderMargin * YUnit THEN st
            ELSE LayoutRow(st, rows[i].words, centers, <<p, 0, i>>),
            rows, i + 1, centers, hy, p)

\* the page is read: its text holds 공급금액 and 소계 and it has words
LayoutPageIsRead(raw_words) ==
    /\ Contains(PageText(raw_words), K_Gonggeupgeumaek)
    /\ Contains(PageText(raw_words), <<"so", "gye">>)
    /\ WordsOf(raw_words) # <<>>

\* col_centers after the header search of a page
CentersAfter(raw_words, centers) ==
    LET rows == group_by_y(WordsOf(raw_words))
        h == LayoutHeaderRow(rows)
    IN IF h # 0 THEN NewCenters(rows[h].words) ELSE centers

\* header_y after the header search of a page
HeaderYAfter(raw_words, hy) ==
    LET rows == group_by_y(WordsOf(raw_words))
        h == LayoutHeaderRow(rows)
    IN IF h # 0 THEN rows[h].y ELSE hy

\* the rows and forward-fill values after page p
LayoutPageRows(st, raw_words, centers, hy, p) ==
    LET c2 == CentersAfter(raw_words, centers)
    IN IF c2 = NoCenters THEN st
       ELSE LayoutRows(st, group_by_y(WordsOf(raw_words)), 1, c2,
                       HeaderYAfter(raw_words, hy), p)

(***************************************************************************)
(* The words PyMuPDF gives for a page whose tables stand one below the     *)
(* other, column j of every table around x = 100 j and the rows 20 apart   *)
(***************************************************************************)
\* the rows of the tables of a page, one after the other
RECURSIVE RowsOfPage(_)
RowsOfPage(tables) ==
    IF tables = <<>> THEN <<>> ELSE Head(tables) \o RowsOfPage(Tail(tables))

RECURSIVE RowWords(_, _, _)
\* the words of the cells of row i from column j on
RowWords(row, i, j) ==
    IF j > Len(row) THEN <<>>
    ELSE (IF row[j] = <<>> THEN <<>>
          ELSE << [x0 |-> 100 * j - 20, x1 |-> 100 * j + 20,
                   y0 |-> 20 * i - 5, y1 |-> 20 * i + 5, text |-> row[j]] >>)
         \o RowWords(row, i, j + 1)

RECURSIVE PageWordsFrom(_, _)
PageWordsFrom(rows, i) ==
    IF i > Len(rows) THEN <<>>
    ELSE RowWords(rows[i], i, 1) \o PageWordsFrom(rows, i + 1)

\* page.get_text("words") of a page of the document
RawWords(tables) == PageWordsFrom(RowsOfPage(tables), 1)

(***************************************************************************)
(* SpecMain: the price rows of the main flow, taken from the layout path   *)
(* and, when it finds nothing or raises, from the tables                   *)
(***************************************************************************)
\* Scenario C with the price column headed 분양금액: a page without the
\* words 공급금액 and 소계
BunyangTable ==
    << <<K_Jutaekhyeong, K_Yaksikpyogi, K_Donghobyeol, K_Cheunggubun,
         K_Haedangsedaesu, K_Bunyanggeumaek>> >> \o Tail(ScenarioCTable)

MainDocs ==
    {<< <<t>> >> : t \in PriceHeaderTables \cup PriceSecondTables
                        \cup {BunyangTable}}
        \cup {<< <<c>>, <<t>> >> : c \in PriceContextTables,
                                   t \in PriceSecondTables}

InitMain ==
    /\ MainIdle
    /\ pdf \in MainDocs
    /\ pc = "layout"
    /\ page_idx = 1
    /\ table_idx = 1
    /\ schedule = EmptySchedule
    /\ offered = [l \in Labels |-> <<>>]
    /\ nupd = 0
    /\ fn = "main"
    /\ arg = <<>>
    /\ ret = <<>>
    /\ CompIdle
    /\ PriceStart
    /\ col_centers = NoCenters
    /\ header_y = NoCoord
    /\ layout_fails \in BOOLEAN
    /\ price_rows = <<>>

\* one pass of the page loop of extract_price_table_with_layout
LayoutPage ==
    /\ pc = "layout" /\ fn = "main"
    /\ page_idx <= Len(pdf)
    /\ LET raw_words == RawWords(pdf[page_idx])
           st == LayoutPageRows(PriceState(results, current_type, current_abbr,
                                           current_dongho),
                                raw_words, col_centers, header_y, page_idx)
       IN IF LayoutPageIsRead(raw_words)
          THEN /\ col_centers' = CentersAfter(raw_words, col_centers)
               /\ header_y' = HeaderYAfter(raw_words, header_y)
               /\ results' = st.results
               /\ current_type' = st.current_type
               /\ current_abbr' = st.current_abbr
               /\ current_dongho' = st.current_dongho
          ELSE UNCHANGED <<col_centers, header_y, results, fillVars>>
    /\ page_idx' = page_idx + 1
    /\ UNCHANGED <<mainVars, pdf, pc, table_idx, schedVars, callVars, compVars,
                   last_col_map, col_map, layout_fails, price_rows>>

\* a start that keeps the column map of an earlier call
TablesStartStale ==
    /\ pc' = "scan"
    /\ page_idx' = 1
    /\ table_idx' = 1
    /\ results' = <<>>
    /\ last_col_map' = last_col_map
    /\ col_map' = NoColMap
    /\ current_type' = <<>>
    /\ current_abbr' = <<>>
    /\ current_dongho' = <<>>

\* the start of extract_price_table_from_tables on the same document
TablesStart ==
    /\ pc' = "scan"
    /\ page_idx' = 1
    /\ table_idx' = 1
    /\ results' = <<>>
    /\ last_col_map' = NoColMap
    /\ col_map' = NoColMap
    /\ current_type' = <<>>
    /\ current_abbr' = <<>>
    /\ current_dongho' = <<>>

\* a return of the layout extractor whose rows are taken as they are, also
\* when there are none
LayoutReturnKeepsEmpty ==
    /\ pc = "layout" /\ fn = "main"
    /\ page_idx > Len(pdf)
    /\ ~layout_fails
    /\ price_rows' = results
    /\ pc' = "done"
    /\ UNCHANGED <<page_idx, table_idx, results, last_col_map, col_map,
                   fillVars>>
    /\ UNCHANGED <<mainVars, pdf, schedVars, callVars, compVars, col_centers, header_y,
                   layout_fails>>

\* the layout path returns: its rows are price_rows unless there is none
LayoutReturn ==
    /\ pc = "layout" /\ fn = "main"
    /\ page_idx > Len(pdf)
    /\ ~layout_fails
    /\ IF results # <<>>
       THEN /\ price_rows' = results
            /\ pc' = "done"
            /\ UNCHANGED <<page_idx, table_idx, results, last_col_map, col_map,
                           fillVars>>
       ELSE /\ TablesStart
            /\ UNCHANGED price_rows
    /\ UNCHANGED <<mainVars, pdf, schedVars, callVars, compVars, col_centers, header_y,
                   layout_fails>>

\* the layout path raises, at its start or after any page: except Exception
LayoutRaise ==
    /\ pc = "layout" /\ fn = "main"
    /\ layout_fails
    /\ TablesStart
    /\ UNCHANGED <<mainVars, pdf, schedVars, callVars, compVars, col_centers, header_y,
                   layout_fails, price_rows>>

NextMain ==
    \/ LayoutPage
    \/ LayoutReturn
    \/ LayoutRaise
    \/ PriceScanTable
    \/ PriceNextPage
    \/ PriceReturn

SpecMain == InitMain /\ [][NextMain]_vars

\* C3: the rows the main flow of app.py hands to display and export hold no
\* two rows of the same (주택형, 약식표기, 동/호별, 층구분), whether they
\* come from extract_price_table_with_layout or from
\* extract_price_table_from_tables.
C3_PriceRowsHoldNoKeyTwice ==
    pc = "done" /\ fn = "main" =>
        \A i, j \in 1..Len(price_rows) :
            SameKey(price_rows[i], price_rows[j]) => i = j

(***************************************************************************)
(* SpecShow: the display and the export of the main flow (app.py           *)
(* 1373-1457) on the values the extractors returned.  A value that is None *)
(* or "" is NoValue: the code tests both with `or` / `if`.                 *)
(***************************************************************************)
\* '정보 없음'
K_NoInfo == <<"jeong", "bo", " ", "eop", "eum">>

\* a or b
Or(a, b) == IF a # NoValue THEN a ELSE b

\* order: the schedule labels in the order they are shown
Order == <<"notice", "special", "general1", "general2", "winner", "docs",
           "contract">>

\* core.get("시행사") or table_company.get("시행사")
CoreFirstSiheng(table_company, core_info) ==
    Or(core_info["sihaengsa"], table_company["sihaengsa"])

\* table_company.get("시행사") or core.get("시행사")
FinalSiheng(table_company, core_info) ==
    Or(table_company["sihaengsa"], core_info["sihaengsa"])

\* table_company.get("시공사") or core.get("시공사")
FinalSigong(table_company, core_info) ==
    Or(table_company["sigongsa"], core_info["sigongsa"])

\* table_company.get("분양대행사")
FinalAgency(table_company) == table_company["bunyangdaehaengsa"]

\* the st.markdown / st.write calls of the summary, in order: the line of
\* 분양대행사 is written only if final_agency is truthy
SummaryLines(name, loc, core_info, mv, table_company, loan) ==
    << <<"complex_name", Or(name, K_NoInfo)>>,
       <<"location", Or(loc, K_NoInfo)>>,
       <<"gonggeupgyumo", Or(core_info["gonggeupgyumo"], K_NoInfo)>>,
       <<"move_in", Or(mv, K_NoInfo)>>,
       <<"sihaengsa", Or(FinalSiheng(table_company, core_info), K_NoInfo)>>,
       <<"sigongsa", Or(FinalSigong(table_company, core_info), K_NoInfo)>> >>
    \o (IF FinalAgency(table_company) # NoValue
        THEN << <<"bunyangdaehaengsa", FinalAgency(table_company)>> >>
        ELSE <<>>)
    \o << <<"loan_cond", Or(loan, K_NoInfo)>> >>

\* rows: {"항목": key, "일정": val or "정보 없음"} for key in order
ScheduleRows(sched) ==
    [i \in 1..Len(Order) |-> <<Order[i], Or(sched[Order[i]], K_NoInfo)>>]

\* st.table(df) if the list has rows, else st.info(...)
TableOrInfo(name, lst) ==
    IF lst # <<>> THEN <<name, lst>> ELSE <<"info", name>>

\* clean: the six columns of a price row
CleanPriceRow(row) ==
    [jutaekhyeong |-> row.jutaekhyeong, yaksikpyogi |-> row.yaksikpyogi,
     dongho |-> row.dongho, cheunggubun |-> row.cheunggubun,
     haedangsedaesu |-> row.haedangsedaesu, sogye |-> row.sogye]

\* clean_price_rows
CleanPriceRows(prows) == [i \in 1..Len(prows) |-> CleanPriceRow(prows[i])]

\* summary_rows of make_excel_file
SummaryRows(name, loc, core_info, mv, siheng, sigong, agency, loan, srows) ==
    << <<"complex_name", name>>,
       <<"location", loc>>,
       <<"gonggeupgyumo", core_info["gonggeupgyumo"]>>,
       <<"move_in", mv>>,
       <<"sihaengsa", siheng>>,
       <<"sigongsa", sigong>>,
       <<"bunyangdaehaengsa", agency>>,
       <<"loan_cond", loan>> >> \o srows

\* what make_excel_file writes: df_summary, df_supply, df_price
make_excel_file(name, loc, core_info, mv, siheng, sigong, agency, loan, srows, sup, prows) ==
    [summary |-> SummaryRows(name, loc, core_info, mv, siheng, sigong, agency,
                             loan, srows),
     supply |-> sup,
     price |-> prows]

\* the values the extractors can hand to the display
\* 2025.03.10
ShownDate == <<"2025.03.10">>

ShowSchedules ==
    {[l \in Labels |-> IF l \in S THEN ShownDate ELSE NoValue] :
        S \in {{}, Labels} \cup {Labels \ {l} : l \in Labels}}

CoreKeys == {"gonggeupgyumo", "sihaengsa", "sigongsa"}

\* 총 100세대
V_Scale == <<"chong", " ", "1", "0", "0", "se", "dae">>

ShowCores ==
    {c \in [CoreKeys -> {NoValue, V_Scale, N_Hanguk}] :
        /\ c["gonggeupgyumo"] \in {NoValue, V_Scale}
        /\ c["sihaengsa"] \in {NoValue, N_Hanguk}
        /\ c["sigongsa"] \in {NoValue, N_Hanguk}}

\* the candidates of a role: none, a name of the text, a name of a table
\* next to an empty one, an empty name alone
ShowCands ==
    { [text |-> <<>>, table |-> <<>>],
      [text |-> <<N_Daehan>>, table |-> <<>>],
      [text |-> <<>>, table |-> << <<N_JuDaehan, 0>>, << <<>>, 0>> >>],
      [text |-> <<>>, table |-> << << <<>>, 0>> >>] }

ShowCandidates ==
    {c \in [Roles -> ShowCands] :
        c["bunyangdaehaengsa"].text = <<>>
            /\ Len(c["bunyangdaehaengsa"].table) # 1}

\* 2027년 3월
V_MoveIn == <<"2", "0", "2", "7", "nyeon", " ", "3", "wol">>

\* 무이자
V_Loan == <<"mu", "i", "ja">>

\* 행복아파트
V_Complex == <<"haeng", "bok", "a", "pa", "teu">>

\* 서울시 강남구
V_Location == <<"seo", "ul", "si", " ", "gang", "nam", "gu">>

ShownPriceRow(type, floor, price, r) ==
    [jutaekhyeong |-> type, yaksikpyogi |-> type, dongho |-> V_101Dong,
     cheunggubun |-> floor, haedangsedaesu |-> <<"1", "2">>, sogye |-> price,
     src |-> <<1, 1, r>>]

ShownSupplyRow(type, n) ==
    [jutaekhyeong |-> type, yaksikpyogi |-> type, jeonyong |-> <<"8", "4">>,
     sogye |-> <<"1", "1", "2">>, chong |-> n, ilban |-> n, teukbyeol |-> <<>>]

\* the row lists: none, or two rows in either order
ShowTables ==
    { [price |-> <<>>, supply |-> <<>>],
      [price |-> <<ShownPriceRow(V_84B, V_2F, P_130000000, 1),
                   ShownPriceRow(V_84A, V_1F, P_123456789, 2)>>,
       supply |-> <<ShownSupplyRow(V_84B, <<"3">>),
                    ShownSupplyRow(V_84A, <<"5">>)>>],
      [price |-> <<ShownPriceRow(V_84A, V_1F, P_123456789, 1),
                   ShownPriceRow(V_84B, V_2F, P_130000000, 2)>>,
       supply |-> <<>>] }

InitShow ==
    /\ CursorIdle
    /\ pc = "idle"
    /\ fn = "show"
    /\ arg = <<>>
    /\ ret = <<>>
    /\ schedule \in ShowSchedules
    /\ offered = [l \in Labels |-> <<>>]
    /\ nupd = 0
    /\ \E c \in ShowCandidates :
          /\ text_candidates = [role \in Roles |-> c[role].text]
          /\ table_candidates = [role \in Roles |-> c[role].table]
    /\ last_page_idx = 0
    /\ scores = <<>>
    /\ final = <<>>
    /\ results = <<>>
    /\ last_col_map = <<>>
    /\ col_map = <<>>
    /\ current_type = <<>>
    /\ current_abbr = <<>>
    /\ current_dongho = <<>>
    /\ col_centers = <<>>
    /\ header_y = 0
    /\ layout_fails = FALSE
    /\ core \in ShowCores
    /\ move_in \in {NoValue, V_MoveIn}
    /\ loan_cond \in {NoValue, V_Loan}
    /\ complex_name \in {NoValue, V_Complex}
    /\ location \in {NoValue, V_Location}
    /\ \E t \in ShowTables : price_rows = t.price /\ supply_rows = t.supply
    /\ shown = <<>>
    /\ schedule_rows = <<>>
    /\ excel = <<>>
    /\ run = 0
    /\ first_run = <<>>

showFrame == <<pdf, page_idx, table_idx, schedVars, arg, ret,
               text_candidates, table_candidates, last_page_idx,
               priceVars, core, move_in, loan_cond, complex_name, location,
               supply_rows, run, first_run>>

\* line 1353: table_company is what choose_final_company returns on the
\* candidates of the text and of the tables (line 467)
ShowResolve ==
    /\ fn = "show" /\ pc = "idle"
    /\ scores' = ScoresOf(text_candidates, table_candidates, last_page_idx)
    /\ final' = FinalOf(scores')
    /\ pc' = "summary"
    /\ UNCHANGED <<showFrame, fn, shown, schedule_rows, excel>>

\* lines 1373-1392: the summary
ShowSummary ==
    /\ fn = "show" /\ pc = "summary"
    /\ shown' = SummaryLines(complex_name, location, core, move_in, final,
                             loan_cond)
    /\ pc' = "schedule"
    /\ UNCHANGED <<showFrame, fn, scores, final, schedule_rows, excel>>

\* lines 1394-1413: the schedule, line by line and as a table
ShowSchedule ==
    /\ fn = "show" /\ pc = "schedule"
    /\ schedule_rows' = ScheduleRows(schedule)
    /\ shown' = shown \o schedule_rows' \o << <<"df_schedule", schedule_rows'>> >>
    /\ pc' = "tables"
    /\ UNCHANGED <<showFrame, fn, scores, final, excel>>

\* lines 1415-1427: the supply rows and the price rows
ShowRowTables ==
    /\ fn = "show" /\ pc = "tables"
    /\ shown' = shown \o <<TableOrInfo("df_supply", supply_rows),
                           TableOrInfo("df_price", price_rows)>>
    /\ pc' = "export"
    /\ UNCHANGED <<showFrame, fn, scores, final, schedule_rows, excel>>

\* lines 1429-1457: the export
Export ==
    /\ fn = "show" /\ pc = "export"
    /\ excel' = make_excel_file(complex_name, location, core, move_in,
                                FinalSiheng(final, core),
                                FinalSigong(final, core), FinalAgency(final),
                                loan_cond, schedule_rows, supply_rows,
                                CleanPriceRows(price_rows))
    /\ pc' = "done"
    /\ UNCHANGED <<showFrame, fn, scores, final, shown, schedule_rows>>

NextShow ==
    \/ ShowResolve
    \/ ShowSummary
    \/ ShowSchedule
    \/ ShowRowTables
    \/ Export

SpecShow == InitShow /\ [][NextShow]_vars

\* the labels the display has written a line for
ShownLabels == {shown[i][1] : i \in 1..Len(shown)}

\* the fields the display is to show: four of the text, the seven of the
\* schedule, the three roles
ShownFields ==
    {"complex_name", "location", "move_in", "loan_cond"} \cup Labels \cup Roles

\* C11: once the summary and the schedule are displayed, every field has
\* a line of its own, whether it was found or not (an absent field shows
\* the placeholder 정보 없음).
C11_EveryFieldIsShown ==
    fn = "show" /\ pc \in {"tables", "export", "done"} =>
        ShownFields \subseteq ShownLabels

\* the table is one the table loop passes over: fewer than 2 rows, an
\* option word, no price word, no word of 동/호, 층구분 or 해당세대, or no
\* header row while no column map is known
IsSkipped(table, last) ==
    \/ Len(table) < 2
    \/ LET df == DataFrame(table)
           all_txt == AllTxt(df)
       IN \/ ContainsAny(all_txt, OptionWords)
          \/ ~(Contains(all_txt, K_Gonggeupgeumaek)
                    \/ Contains(all_txt, K_Bunyanggeumaek))
          \/ ~(HasDongHo(all_txt) \/ HasFloor(all_txt)
                    \/ Contains(all_txt, K_Haedangsedae))
          \/ (\A i \in 1..Len(df) : ~IsHeaderRow(RowTxt(df[i])))
                /\ last = NoColMap

\* C12: a pass of the table loop of extract_price_table_from_tables over a
\* skipped table adds no row, leaves last_col_map and the forward-fill
\* values as they were, and moves on to the next table of the page with
\* the scan still running.
C12_SkippedTableChangesNothing ==
    [][ (AtTable /\ fn = "extract_price_table_from_tables"
            /\ IsSkipped(pdf[page_idx][table_idx], last_col_map))
        => /\ results' = results
           /\ last_col_map' = last_col_map
           /\ fillVars' = fillVars
           /\ pc' = pc
           /\ page_idx' = page_idx
           /\ table_idx' = table_idx + 1 ]_vars

\* (page, table) a comes before (page, table) b
PlaceBefore(a, b) == a[1] < b[1] \/ (a[1] = b[1] /\ a[2] < b[2])

\* the scan is over, it passed over a table the filters turn away, and
\* rows of a table before it and of a table after it were returned
C12_Witness ==
    /\ pc = "done" /\ fn = "extract_price_table_from_tables"
    /\ \E p \in 1..Len(pdf) : \E k \in 1..Len(pdf[p]) :
          /\ pdf[p][k] \in OtherTables
          /\ \E i, j \in 1..Len(price_rows) :
                /\ PlaceBefore(<<price_rows[i].src[1], price_rows[i].src[2]>>,
                               <<p, k>>)
                /\ PlaceBefore(<<p, k>>,
                               <<price_rows[j].src[1], price_rows[j].src[2]>>)

(***************************************************************************)
(* extract_supply_target_from_tables                                       *)
(***************************************************************************)
\* 전용, 면적, 소계, 세대, 세대수, 총공급, 일반공급
K_Jeonyong == <<"jeon", "yong">>

K_Myeonjeok == <<"myeon", "jeok">>

K_Sogye == <<"so", "gye">>

K_Sedae == <<"se", "dae">>

K_Sedaesu == <<"se", "dae", "su">>

K_Chonggonggeup == <<"chong", "gong", "geup">>

K_Ilbangonggeup == <<"il", "ban", "gong", "geup">>

\* 기관추천, 다자녀, 신혼부부, 노부모, 생애최초
K_Gigwanchucheon == <<"gi", "gwan", "chu", "cheon">>

K_Dajanyeo == <<"da", "ja", "nyeo">>

K_Sinhonbubu == <<"sin", "hon", "bu", "bu">>

K_Nobumo == <<"no", "bu", "mo">>

K_Saengaechoecho == <<"saeng", "ae", "choe", "cho">>

\* 합계
K_Hapgye == <<"hap", "gye">>

\* the keys of col_map whose cells are copied into a row
SupplyValueKeys == {"jutaekhyeong", "yaksikpyogi", "jeonyong", "sogye", "chong",
                    "ilban"}

\* ["기관추천", "다자녀가구", "신혼부부", "노부모부양", "생애최초"]
SpecialKeys == <<"gigwan", "dajanyeo", "sinhon", "nobumo", "saengae">>

SupplyColKeys == SupplyValueKeys \cup {SpecialKeys[i] : i \in 1..Len(SpecialKeys)}

\* the key the if/elif chain gives a column of the supply table, or "none"
SupplyHeaderKey(hdr) ==
    IF Contains(hdr, K_Jutaekhyeong) THEN "jutaekhyeong"
    ELSE IF \/ Contains(hdr, K_Yaksikpyogi)
            \/ Contains(hdr, <<"yak", "sik", "pyo", "si">>)
            \/ Contains(hdr, K_Yaksik) THEN "yaksikpyogi"
    ELSE IF \/ Contains(hdr, <<"ju", "geo">> \o K_Jeonyong \o K_Myeonjeok)
            \/ (Contains(hdr, K_Jeonyong) /\ Contains(hdr, K_Myeonjeok))
         THEN "jeonyong"
    ELSE IF Contains(hdr, K_Sogye) /\ ~Contains(hdr, K_Sedae) THEN "sogye"
    ELSE IF \/ (Contains(hdr, K_Chonggonggeup) /\ Contains(hdr, K_Sedaesu))
            \/ Contains(hdr, K_Chonggonggeup \o K_Sedaesu) THEN "chong"
    ELSE IF Contains(hdr, K_Ilbangonggeup) /\ Contains(hdr, K_Sedaesu)
         THEN "ilban"
    ELSE IF Contains(hdr, K_Gigwanchucheon) THEN "gigwan"
    ELSE IF Contains(hdr, K_Dajanyeo) THEN "dajanyeo"
    ELSE IF Contains(hdr, K_Sinhonbubu) THEN "sinhon"
    ELSE IF Contains(hdr, K_Nobumo) THEN "nobumo"
    ELSE IF Contains(hdr, K_Saengaechoecho) THEN "saengae"
    ELSE "none"

\* the col_map of a supply table, df2 starting at its header row
SupplyColMap(df2) ==
    LET keyOf(c) == SupplyHeaderKey(ColumnHdr(df2, c, HeaderRows))
    IN [k \in SupplyColKeys |-> LastColumnWith(keyOf, Len(df2[1]), k)]

RECURSIVE SpecialTotal(_, _, _)
\* special_total: the sum over the special-supply columns from key i on
SpecialTotal(row, cm, i) ==
    IF i > Len(SpecialKeys) THEN 0
    ELSE LET idx == cm[SpecialKeys[i]]
             num == IF idx = 0 \/ idx > Len(row) THEN <<>>
                    ELSE DigitsOf(row[idx])
         IN (IF num # <<>> THEN IntOf(num) ELSE 0)
                + SpecialTotal(row, cm, i + 1)

\* rec of a data row
SupplyRec(row, cm) ==
    LET special_total == SpecialTotal(row, cm, 1) IN
    [jutaekhyeong |-> get_val_idx(row, cm["jutaekhyeong"]),
     yaksikpyogi |-> get_val_idx(row, cm["yaksikpyogi"]),
     jeonyong |-> get_val_idx(row, cm["jeonyong"]),
     sogye |-> get_val_idx(row, cm["sogye"]),
     chong |-> get_val_idx(row, cm["chong"]),
     ilban |-> get_val_idx(row, cm["ilban"]),
     teukbyeol |-> IF special_total > 0 THEN StrOf(special_total) ELSE <<>>]

\* the row is appended: it is no 합계 row, has a type or an abbreviation,
\* and repeats no header word
SupplyRowIsKept(row, cm) ==
    LET rec == SupplyRec(row, cm) IN
    /\ ~Contains(RowTxt(row), K_Hapgye)
    /\ rec.jutaekhyeong # <<>> \/ rec.yaksikpyogi # <<>>
    /\ ~Contains(rec.jutaekhyeong, K_Jutaekhyeong)
    /\ ~Contains(rec.yaksikpyogi, K_Yaksik)

RECURSIVE SupplyRows(_, _, _, _)
\* the row loop of a supply table from row r of df2 on
SupplyRows(res, df2, r, cm) ==
    IF r > Len(df2) THEN res
    ELSE SupplyRows(IF SupplyRowIsKept(df2[r], cm)
                    THEN Append(res, SupplyRec(df2[r], cm)) ELSE res,
                    df2, r + 1, cm)

\* results after one pass of the table loop
SupplyTable(res, table) ==
    IF Len(table) < 3 THEN res
    ELSE LET df == DataFrame(table)
             h == HeaderIdx(df)
         IN IF h = 0 THEN res
            ELSE LET df2 == SubSeq(df, h, Len(df))
                 IN SupplyRows(res, df2, 2, SupplyColMap(df2))

(***************************************************************************)
(* SpecTwice: the extractors of the main flow (app.py 1352-1366) run on a  *)
(* document, and then once more on the same document.  Each call starts    *)
(* from the values its function body assigns at its top; whatever else the *)
(* first run left behind is still there when the second run starts.        *)
(***************************************************************************)
\* [["시공사", "대한건설", "한국개발"]]: two names of one length for a role
TieTable == << <<K_Sigongsa, N_Daehan, N_Hanguk>> >>

\* 주택형 | 약식표기 | 총공급세대수 | 기관추천 | 신혼부부
SupplyHeader5 ==
    <<K_Jutaekhyeong, K_Yaksikpyogi, K_Chonggonggeup \o K_Sedaesu,
      K_Gigwanchucheon, K_Sinhonbubu>>

SupplyTable5 ==
    << SupplyHeader5,
       <<V_84A, V_84A, <<"1", "0">>, <<"1">>, <<"2">> >>,
       <<V_84B, V_84B, <<"5">>, <<>>, <<>> >>,
       <<K_Hapgye, <<>>, <<"1", "5">>, <<"1">>, <<"2">> >> >>

TwiceTables ==
    {ScenarioETable, TieTable, ScenarioBTable, SupplyTable5, ScenarioCTable,
     ContinuationTable6}

TwiceDocs ==
    {<< <<a, b>> >> : a, b \in TwiceTables}
        \cup {<< <<a>>, <<b>> >> : a, b \in TwiceTables}
        \cup { << <<ScenarioETable, TieTable>>, <<SupplyTable5, ScenarioCTable>>,
                  <<ContinuationTable6>> >> }

TwiceTextCands ==
    {EmptyRes, [role \in Roles |-> IF role = "sigongsa" THEN <<N_Hanguk>> ELSE <<>>]}

InitTwice ==
    /\ pdf \in TwiceDocs
    /\ CursorStart
    /\ fn = "extract_schedule_from_table"
    /\ arg = <<>>
    /\ ret = <<>>
    /\ schedule = EmptySchedule
    /\ offered = [l \in Labels |-> <<>>]
    /\ nupd = 0
    /\ text_candidates \in TwiceTextCands
    /\ table_candidates = <<>>
    /\ last_page_idx = 0
    /\ scores = <<>>
    /\ final = <<>>
    /\ PriceStart
    /\ col_centers = NoCenters
    /\ header_y = NoCoord
    /\ price_rows = <<>>
    /\ layout_fails \in BOOLEAN
    /\ core = <<>>
    /\ move_in = <<>>
    /\ loan_cond = <<>>
    /\ complex_name = <<>>
    /\ location = <<>>
    /\ supply_rows = <<>>
    /\ shown = <<>>
    /\ schedule_rows = <<>>
    /\ excel = <<>>
    /\ run = 1
    /\ first_run = <<>>

\* extract_schedule_from_table
TwiceSchedule ==
    /\ fn = "extract_schedule_from_table"
    /\ SchedScanTable \/ SchedNextPage \/ SchedReturn

\* line 1353: extract_company_from_table is called
CallCompany ==
    /\ pc = "done" /\ fn = "extract_schedule_from_table"
    /\ fn' = "extract_company_from_table"
    /\ pc' = "start"
    /\ page_idx' = 1
    /\ table_idx' = 1
    /\ UNCHANGED <<mainVars, pdf, schedVars, arg, ret, compVars, priceVars>>

\* line 1354: extract_supply_target_from_tables is called
CallSupply ==
    /\ pc = "done" /\ fn = "extract_company_from_table"
    /\ fn' = "extract_supply_target_from_tables"
    /\ pc' = "scan"
    /\ page_idx' = 1
    /\ table_idx' = 1
    /\ supply_rows' = <<>>
    /\ UNCHANGED <<pdf, schedVars, arg, ret, compVars, priceVars, core, move_in,
                   loan_cond, complex_name, location, shown, schedule_rows,
                   excel, run, first_run>>

supplyFrame == <<pdf, schedVars, callVars, compVars, priceVars, core, move_in,
                 loan_cond, complex_name, location, shown, schedule_rows,
                 excel, run, first_run>>

\* one pass of the table loop: the function returns after the first table
\* that leaves it with rows
SupplyScanTable ==
    /\ AtTable /\ fn = "extract_supply_target_from_tables"
    /\ supply_rows' = SupplyTable(supply_rows, pdf[page_idx][table_idx])
    /\ IF supply_rows' # <<>>
       THEN pc' = "done" /\ UNCHANGED table_idx
       ELSE table_idx' = table_idx + 1 /\ UNCHANGED pc
    /\ UNCHANGED <<supplyFrame, page_idx>>

SupplyNextPage ==
    /\ AtPageEnd /\ fn = "extract_supply_target_from_tables"
    /\ page_idx' = page_idx + 1
    /\ table_idx' = 1
    /\ UNCHANGED <<supplyFrame, pc, supply_rows>>

SupplyReturn ==
    /\ AtDocEnd /\ fn = "extract_supply_target_from_tables"
    /\ pc' = "done"
    /\ UNCHANGED <<supplyFrame, page_idx, table_idx, supply_rows>>

\* line 1358: extract_price_table_with_layout is called
CallPrice ==
    /\ pc = "done" /\ fn = "extract_supply_target_from_tables"
    /\ fn' = "main"
    /\ pc' = "layout"
    /\ page_idx' = 1
    /\ table_idx' = 1
    /\ results' = <<>>
    /\ col_centers' = NoCenters
    /\ header_y' = NoCoord
    /\ current_type' = <<>>
    /\ current_abbr' = <<>>
    /\ current_dongho' = <<>>
    /\ UNCHANGED <<mainVars, pdf, schedVars, arg, ret, compVars, last_col_map,
                   col_map, layout_fails, price_rows>>

\* what a run hands to the display
Bundle ==
    [schedule |-> schedule, final |-> final, supply_rows |-> supply_rows,
     price_rows |-> price_rows]

\* the same document is analysed once more
Rerun ==
    /\ pc = "done" /\ fn = "main" /\ run = 1
    /\ first_run' = Bundle
    /\ run' = 2
    /\ fn' = "extract_schedule_from_table"
    /\ pc' = "scan"
    /\ page_idx' = 1
    /\ table_idx' = 1
    /\ schedule' = EmptySchedule
    /\ UNCHANGED <<pdf, offered, nupd, arg, ret, compVars, priceVars, core,
                   move_in, loan_cond, complex_name, location, supply_rows,
                   shown, schedule_rows, excel>>

NextTwice ==
    \/ TwiceSchedule
    \/ CallCompany
    \/ CompStart
    \/ CompScanTable
    \/ CompNextPage
    \/ CompChoose
    \/ CallSupply
    \/ SupplyScanTable
    \/ SupplyNextPage
    \/ SupplyReturn
    \/ CallPrice
    \/ LayoutPage
    \/ LayoutReturn
    \/ LayoutRaise
    \/ PriceScanTable
    \/ PriceNextPage
    \/ PriceReturn
    \/ Rerun

SpecTwice == InitTwice /\ [][NextTwice]_vars

ShownValue(label) ==
    shown[CHOOSE i \in 1..Len(shown) : shown[i][1] = label][2]

\* the value of the summary row the export wrote under a label
ExportedValue(label) ==
    excel.summary[CHOOSE i \in 1..Len(excel.summary) :
                        excel.summary[i][1] = label][2]

\* C14: choose_final_company returns "" for a role exactly when the role
\* has no non-empty candidate in the text list or the table list; and for
\* 시행사 and 시공사 the name displayed and exported is the resolver's
\* winner when it is not "", and the value of extract_core_info otherwise
\* (the display writing 정보 없음 when that is absent too).
C14_ResolverFirstThenCoreInfo ==
    fn = "show" /\ pc # "idle" =>
        /\ \A role \in Roles : final[role] = <<>> <=> CandidateNames(role) = {}
        /\ \A role \in {"sihaengsa", "sigongsa"} :
              LET name == IF final[role] # <<>> THEN final[role] ELSE core[role]
              IN /\ pc # "summary" =>
                        ShownValue(role) = IF name # <<>> THEN name ELSE K_NoInfo
                 /\ pc = "done" => ExportedValue(role) = name

\* the export is written: 시행사 had only an empty candidate and shows the
\* name of extract_core_info, 시공사 shows the resolver's winner although
\* extract_core_info found another name
C14_Witness ==
    /\ fn = "show" /\ pc = "done"
    /\ table_candidates["sihaengsa"] # <<>>
    /\ final["sihaengsa"] = <<>>
    /\ ExportedValue("sihaengsa") = N_Hanguk
    /\ core["sigongsa"] = N_Hanguk
    /\ ExportedValue("sigongsa") = N_JuDaehan
    /\ ShownValue("sigongsa") = N_JuDaehan

(***************************************************************************)
(* SpecExport: extract_price_table_from_tables over a document (app.py     *)
(* 1362, 1366), and then the export of its rows and of the supply rows     *)
(* (app.py 1433-1457)                                                      *)
(***************************************************************************)
\* the supply rows the main flow holds: none, or two rows
ExportSupplies ==
    { <<>>,
      <<ShownSupplyRow(V_84B, <<"3">>), ShownSupplyRow(V_84A, <<"5">>)>> }

InitExport ==
    /\ pdf \in PriceDocs
    /\ CursorStart
    /\ schedule = EmptySchedule
    /\ offered = [l \in Labels |-> <<>>]
    /\ nupd = 0
    /\ fn = "extract_price_table_from_tables"
    /\ arg = <<>>
    /\ ret = <<>>
    /\ text_candidates = <<>>
    /\ table_candidates = <<>>
    /\ last_page_idx = 0
    /\ scores = <<>>
    /\ final = [role \in Roles |-> NoValue]
    /\ PriceStart
    /\ col_centers = <<>>
    /\ header_y = 0
    /\ layout_fails = FALSE
    /\ price_rows = <<>>
    /\ core = [k \in CoreKeys |-> NoValue]
    /\ move_in = NoValue
    /\ loan_cond = NoValue
    /\ complex_name = NoValue
    /\ location = NoValue
    /\ supply_rows \in ExportSupplies
    /\ shown = <<>>
    /\ schedule_rows = <<>>
    /\ excel = <<>>
    /\ run = 0
    /\ first_run = <<>>

\* lines 1433-1457 on the rows extract_price_table_from_tables returned
ExportRows ==
    /\ pc = "done" /\ fn = "extract_price_table_from_tables"
    /\ excel' = make_excel_file(complex_name, location, core, move_in,
                                FinalSiheng(final, core),
                                FinalSigong(final, core), FinalAgency(final),
                                loan_cond, schedule_rows, supply_rows,
                                CleanPriceRows(price_rows))
    /\ pc' = "exported"
    /\ UNCHANGED <<pdf, page_idx, table_idx, schedVars, callVars, compVars,
                   priceVars, core, move_in, loan_cond, complex_name, location,
                   supply_rows, shown, schedule_rows, run, first_run>>

NextExport ==
    \/ PriceScanTable
    \/ PriceNextPage
    \/ PriceReturn
    \/ ExportRows

SpecExport == InitExport /\ [][NextExport]_vars

\* <<page, table, row>> a comes before <<page, table, row>> b
SrcBefore(a, b) ==
    \/ a[1] < b[1]
    \/ a[1] = b[1] /\ a[2] < b[2]
    \/ a[1] = b[1] /\ a[2] = b[2] /\ a[3] < b[3]

\* where the first admitted row of the key of rec stands in the document
FirstSrc(rec) ==
    LET rs == {r \in 1..Len(results) : SameKey(results[r], rec)}
    IN results[CHOOSE r \in rs : \A q \in rs : r <= q].src

\* the six columns of two price rows agree
SameColumns(a, b) ==
    /\ SameKey(a, b)
    /\ a.haedangsedaesu = b.haedangsedaesu
    /\ a.sogye = b.sogye

\* C15: the rows extract_price_table_from_tables returns stand in the
\* order in which the first admitted rows of their keys stand in the
\* document, whichever row of a key was kept; and the export writes the
\* price rows and the supply rows one for one in the order it was given.
C15_RowsKeepDocumentOrder ==
    fn = "extract_price_table_from_tables" /\ pc \in {"done", "exported"} =>
        /\ \A i, j \in 1..Len(price_rows) :
              i < j => SrcBefore(FirstSrc(price_rows[i]), FirstSrc(price_rows[j]))
        /\ pc = "exported" =>
              /\ Len(excel.price) = Len(price_rows)
              /\ \A i \in 1..Len(price_rows) :
                    SameColumns(excel.price[i], price_rows[i])
              /\ excel.supply = supply_rows

\* the export is written; the first price row is a later row that took the
\* place of the first row of its key, rows of other keys follow it, and
\* two supply rows were written
C15_Witness ==
    /\ fn = "extract_price_table_from_tables" /\ pc = "exported"
    /\ Len(price_rows) >= 2
    /\ price_rows[1] # results[1]
    /\ SameKey(price_rows[1], results[1])
    /\ Len(excel.price) >= 2
    /\ Len(excel.supply) = 2

\* the score scores[role] holds for a name
ScoreIn(role, name) ==
    scores[role][CHOOSE i \in 1..Len(scores[role]) :
                    scores[role][i][1] = name][2]

\* the occurrences of a name in the table candidates of a role
TableOccurrences(role, name) ==
    {i \in 1..Len(table_candidates[role]) : table_candidates[role][i][1] = name}

\* the name is in the text candidates of a role
InTextCandidates(role, name) ==
    \E i \in 1..Len(text_candidates[role]) : text_candidates[role][i] = name

\* no name stands twice in a text list: extract_companies_from_text appends
\* a name only if it is not in the list yet (app.py 185, 201, 214)
TextListsHoldNoNameTwice ==
    \A role \in Roles : \A i, j \in 1..Len(text_candidates[role]) :
        text_candidates[role][i] = text_candidates[role][j] => i = j

\* C16: on text lists as extract_companies_from_text returns them, the
\* score of a name for a role is 3 for each of its table occurrences, plus
\* 2 for each of those on the last page, plus 2 if the name is in the text
\* list of the role; and a name that is only in the text list is not
\* chosen when another name has a table occurrence.
C16_ScoreOfTableAndTextOccurrences ==
    pc = "done" /\ fn = "choose_final_company" /\ TextListsHoldNoNameTwice =>
        \A role \in Roles :
            /\ {scores[role][i][1] : i \in 1..Len(scores[role])}
                    = CandidateNames(role)
            /\ \A n \in CandidateNames(role) :
                  ScoreIn(role, n) =
                      3 * Cardinality(TableOccurrences(role, n))
                      + 2 * Cardinality({i \in TableOccurrences(role, n) :
                                table_candidates[role][i][2] = last_page_idx})
                      + (IF InTextCandidates(role, n) THEN 2 ELSE 0)
            /\ \A a, b \in CandidateNames(role) :
                  (a # b /\ TableOccurrences(role, a) # {}
                        /\ TableOccurrences(role, b) = {})
                  => final[role] # b

\* a call has returned the name found once in a table, not on the last
\* page, over a longer name found only in the text
C16_Witness ==
    /\ pc = "done" /\ fn = "choose_final_company"
    /\ \E role \in Roles :
          /\ text_candidates[role] = <<N_JuDaehan>>
          /\ Len(table_candidates[role]) = 1
          /\ table_candidates[role][1][1] = N_Daehan
          /\ table_candidates[role][1][2] # last_page_idx
          /\ final[role] = N_Daehan
          /\ ScoreIn(role, N_Daehan) = 3
          /\ ScoreIn(role, N_JuDaehan) = 2

\* the table at the cursor has no header row and no price word, no option
\* word and two rows or more, and a header table was accepted before it
HeaderlessWithoutPriceWord ==
    /\ AtTable /\ fn = "extract_price_table_from_tables"
    /\ last_col_map # NoColMap
    /\ LET table == pdf[page_idx][table_idx]
           df == DataFrame(table)
       IN /\ Len(table) >= 2
          /\ HeaderIdx(df) = 0
          /\ ~ContainsAny(AllTxt(df), OptionWords)
          /\ ~Contains(AllTxt(df), K_Gonggeupgeumaek)
          /\ ~Contains(AllTxt(df), K_Bunyanggeumaek)

\* C17: a headerless table without a price word that follows an accepted
\* header table is read as a continuation table: its rows are parsed with
\* the column map of the header table, corrected by the table's own column
\* labels.
C17_ContinuationWithoutPriceWordIsRead ==
    [][ HeaderlessWithoutPriceWord =>
            LET table == pdf[page_idx][table_idx]
                cm == ContinuationColMap(DataFrame(table), last_col_map)
                st == ParseTable(PriceState(results, current_type, current_abbr,
                                            current_dongho),
                                 table, cm, page_idx, table_idx)
            IN results' = st.results ]_vars

\* a header table the table loop accepts: it passes the filters and has a
\* header row
AcceptedHeaderTable(table) ==
    /\ ~IsSkipped(table, NoColMap)
    /\ \E i \in 1..Len(table) : IsHeaderRow(RowTxt(DataFrame(table)[i]))

\* the column map built from the last accepted header table before the
\* place <<p, k>> of the document, NoColMap when there is none
MapOfLastHeaderBefore(p, k) ==
    LET before == {pl \in (1..Len(pdf)) \X (1..MaxPriceRows + 2) :
                        /\ pl[2] <= Len(pdf[pl[1]])
                        /\ PlaceBefore(pl, <<p, k>>)
                        /\ AcceptedHeaderTable(pdf[pl[1]][pl[2]])}
    IN IF before = {} THEN NoColMap
       ELSE LET pl == CHOOSE x \in before :
                         \A y \in before : x = y \/ PlaceBefore(y, x)
                df == DataFrame(pdf[pl[1]][pl[2]])
            IN HeaderColMap(SubSeq(df, HeaderIdx(df), Len(df)))

\* C18: extract_price_table_from_tables passes over the tables one by one
\* in (page, table) order.  At every table the map a headerless table would
\* start from is the map of the last accepted header table before it, with
\* no correction of a continuation table in between; a headerless table
\* that is read is read with that map and its own corrections; and a
\* headerless table before every accepted header table adds no row.
C18_HeaderlessTableStartsFromLastHeaderMap ==
    [][ (pc = "scan" /\ fn = "extract_price_table_from_tables") =>
          /\ \/ AtTable /\ page_idx' = page_idx /\ table_idx' = table_idx + 1
             \/ AtPageEnd /\ page_idx' = page_idx + 1 /\ table_idx' = 1
             \/ AtDocEnd /\ pc' = "done"
          /\ AtTable =>
                LET table == pdf[page_idx][table_idx]
                    hm == MapOfLastHeaderBefore(page_idx, table_idx)
                IN /\ last_col_map = hm
                   /\ (~AcceptedHeaderTable(table) /\ ~IsSkipped(table, hm))
                        => col_map' = ContinuationColMap(DataFrame(table), hm)
                   /\ (~AcceptedHeaderTable(table) /\ hm = NoColMap)
                        => results' = results ]_vars

\* the scan is over on a document of a header table, a continuation table
\* that corrected the map, and a second continuation table that was read
\* with the map of the header table and added a row
C18_Witness ==
    /\ pc = "done" /\ fn = "extract_price_table_from_tables"
    /\ Len(pdf) = 2 /\ Len(pdf[1]) = 2 /\ Len(pdf[2]) = 1
    /\ AcceptedHeaderTable(pdf[1][1])
    /\ ~AcceptedHeaderTable(pdf[1][2]) /\ ~IsSkipped(pdf[1][2], last_col_map)
    /\ ~AcceptedHeaderTable(pdf[2][1]) /\ ~IsSkipped(pdf[2][1], last_col_map)
    /\ ContinuationColMap(DataFrame(pdf[1][2]), last_col_map) # last_col_map
    /\ col_map = last_col_map
    /\ \E i, j \in 1..Len(results) :
          /\ results[i].src[1] = 1 /\ results[i].src[2] = 2
          /\ results[j].src[1] = 2

\* the last column of a row with an amount above 100000, 0 without one
RightmostAmountColumn(row) ==
    LET cs == {c \in 1..Len(row) : Amount(get_val_idx(row, c)) > MinPrice}
    IN IF cs = {} THEN 0 ELSE CHOOSE c \in cs : \A d \in cs : d <= c

\* C19: the 공급금액 소계 of every row extract_price_table_from_tables
\* finds is the value of the right-most column of its table row that holds
\* an amount, whatever amounts the columns further left hold.
C19_PriceFromRightmostColumn ==
    fn = "extract_price_table_from_tables" =>
        \A i \in 1..Len(results) :
            LET src == results[i].src
                row == DataFrame(pdf[src[1]][src[2]])[src[3]]
            IN results[i].sogye = get_val_idx(row, RightmostAmountColumn(row))

\* the admission tests, the unit-count filter and the floor correction,
\* read off a row
RowIsSound(r) ==
    /\ r.sogye # <<>>
    /\ r.jutaekhyeong # <<>> \/ r.yaksikpyogi # <<>>
    /\ r.dongho # <<>> \/ r.cheunggubun # <<>> \/ r.haedangsedaesu # <<>>
    /\ Len(DigitsOf(r.haedangsedaesu)) <= MaxUnitDigits
    /\ DigitsOf(r.cheunggubun) # <<>> => Contains(r.cheunggubun, K_Cheung)

\* C20: every row extract_price_table_with_layout and
\* extract_price_table_from_tables collect and return holds a 공급금액 소계,
\* one of 주택형 and 약식표기, and one of 동/호별, 층구분 and 해당세대수;
\* its 해당세대수 has at most three digits, and its 층구분 holds 층 when it
\* holds a digit.
C20_ReturnedRowsAreSound ==
    fn = "main" =>
        /\ \A i \in 1..Len(results) : RowIsSound(results[i])
        /\ \A i \in 1..Len(price_rows) : RowIsSound(price_rows[i])

\* the main flow has its rows, and one of them comes from a table row whose
\* floor cell held a bare number
C20_Witness ==
    /\ fn = "main" /\ pc = "done"
    /\ \E i \in 1..Len(price_rows) :
          /\ price_rows[i].cheunggubun = <<"3">> \o K_Cheung
          /\ price_rows[i].haedangsedaesu # <<>>

\* the row of the document a price row was read from: a row of the words of
\* a page for the layout extractor, a row of a table for the table extractor
SourceRow(src) ==
    IF src[2] = 0 THEN RowsOfPage(pdf[src[1]])[src[3]]
    ELSE DataFrame(pdf[src[1]][src[2]])[src[3]]

\* the row comes from the first table of the document, and that table has
\* the header 주택형 | 약식표기 | 동/호별 | 층구분 | 해당세대수 | 공급금액소계
FromFirstHeader6Table(src) ==
    /\ src[1] = 1 /\ src[2] <= 1
    /\ pdf[1][1][1] = Header6
    /\ src[3] <= Len(pdf[1][1])

\* the 동/호별 cell the rows before row r of the first table carry to it:
\* the last one that is neither empty nor floor-like
CarriedDongho(r) ==
    LET t == pdf[1][1]
        before == {q \in 2..(r - 1) :
                      /\ get_val_idx(t[q], 3) # <<>>
                      /\ ~is_floor_like(get_val_idx(t[q], 3))}
    IN IF before = {} THEN <<>>
       ELSE get_val_idx(t[CHOOSE q \in before : \A q2 \in before : q2 <= q], 3)

\* C21: in both price extractors a row whose 동/호별 cell is floor-like
\* while its 층구분 cell is not is emitted with the 동/호별 cell as its
\* 층구분 and with the 동/호별 carried from the rows before it, and the
\* carried 동/호별 is never the floor-like cell.
C21_FloorInDonghoCellKeepsCarriedDongho ==
    fn = "main" =>
        /\ \A i \in 1..Len(results) :
              LET src == results[i].src
                  row == SourceRow(src)
              IN (/\ FromFirstHeader6Table(src)
                  /\ is_floor_like(get_val_idx(row, 3))
                  /\ ~is_floor_like(get_val_idx(row, 4)))
                    => /\ results[i].cheunggubun = get_val_idx(row, 3)
                       /\ results[i].dongho = CarriedDongho(src[3])
        /\ ~is_floor_like(current_dongho)

\* C22: a row extract_price_table_from_tables emits has a 주택형 only when
\* its own 주택형 cell or the 주택형 cell of an earlier data row of its
\* own table holds one: no 주택형 comes from a table or page before.
C22_UnitTypeComesFromOwnTable ==
    fn = "extract_price_table_from_tables" =>
        \A i \in 1..Len(results) :
            LET src == results[i].src
                table == pdf[src[1]][src[2]]
                df == DataFrame(table)
                cm == ColMapOf(table, MapOfLastHeaderBefore(src[1], src[2]))
                c == cm["jutaekhyeong"]
            IN (\A q \in (HeaderIdx(df) + 1)..src[3] :
                    get_val_idx(df[q], c) = <<>>)
                  => results[i].jutaekhyeong = <<>>

(***************************************************************************)
(* SpecSupply: extract_supply_target_from_tables on documents of one or    *)
(* two tables                                                              *)
(***************************************************************************)
\* 2세대
V_2Sedae == <<"2">> \o K_Sedae

SupplyDataRows5 ==
    { <<V_84A, V_84A, <<"1", "0">>, <<"1">>, <<"2">> >>,
      <<V_84B, V_84B, <<"5">>, <<>>, <<>> >>,
      <<V_84B, V_84B, <<"5">>, <<"-">>, <<"3">> >>,
      <<V_84A, V_84A, <<"7">>, V_2Sedae, <<"1">> >>,
      <<K_Hapgye, <<>>, <<"1", "5">>, <<"1">>, <<"2">> >> }

\* 주택형 | 약식표기 | 총공급세대수 | 기관추천 | 다자녀 | 신혼부부 | 노부모 |
\* 생애최초
SupplyHeader8 ==
    <<K_Jutaekhyeong, K_Yaksikpyogi, K_Chonggonggeup \o K_Sedaesu,
      K_Gigwanchucheon, K_Dajanyeo, K_Sinhonbubu, K_Nobumo, K_Saengaechoecho>>

SupplyTable8 ==
    << SupplyHeader8,
       <<V_84A, V_84A, <<"2", "0">>, <<"1">>, <<"2">>, <<"3">>, <<"4">>,
         <<"1", "2">> >>,
       <<V_84B, V_84B, <<"9">>, <<"0">>, <<>>, <<"-">>, <<"0">>, <<>> >> >>

\* a table with a header row whose rows are all 합계 rows
HollowSupplyTable ==
    << SupplyHeader5,
       <<K_Hapgye, <<>>, <<"1", "5">>, <<"1">>, <<"2">> >>,
       <<K_Hapgye, <<>>, <<"1", "5">>, <<"1">>, <<"2">> >> >>

\* a header row and one data row: too short to be looked into
ShortSupplyTable ==
    << SupplyHeader5, <<V_84A, V_84A, <<"1", "0">>, <<"1">>, <<"2">> >> >>

\* three rows without a header row
HeaderlessSupplyTable ==
    << <<V_84A, V_84A, <<"1", "0">>, <<"1">>, <<"2">> >>,
       <<V_84B, V_84B, <<"5">>, <<>>, <<>> >>,
       <<V_84B, V_84B, <<"5">>, <<"-">>, <<"3">> >> >>

SupplyFirstTables ==
    {HollowSupplyTable, ShortSupplyTable, HeaderlessSupplyTable, SupplyTable8}

SupplyTables ==
    {<<SupplyHeader5>> \o q : q \in SeqsOf(SupplyDataRows5, 2)}
        \cup SupplyFirstTables

SupplyDocs ==
    {<< <<t>> >> : t \in SupplyTables}
        \cup {<< <<a, t>> >> : a \in SupplyFirstTables, t \in SupplyTables}
        \cup {<< <<a>>, <<t>> >> : a \in SupplyFirstTables, t \in SupplyTables}

InitSupply ==
    /\ MainIdle
    /\ pdf \in SupplyDocs
    /\ CursorStart
    /\ schedule = EmptySchedule
    /\ offered = [l \in Labels |-> <<>>]
    /\ nupd = 0
    /\ fn = "extract_supply_target_from_tables"
    /\ arg = <<>>
    /\ ret = <<>>
    /\ CompIdle
    /\ PriceIdle

NextSupply == SupplyScanTable \/ SupplyNextPage \/ SupplyReturn

SpecSupply == InitSupply /\ [][NextSupply]_vars

\* the tables the function looks into that hold a header row, 주택형 and
\* an abbreviation marker in one row
SupplyHeaderPlaces ==
    {pl \in (1..Len(pdf)) \X (1..2) :
        /\ pl[2] <= Len(pdf[pl[1]])
        /\ Len(pdf[pl[1]][pl[2]]) >= 3
        /\ HeaderIdx(DataFrame(pdf[pl[1]][pl[2]])) # 0}

\* the rows of the first of them in (page, table) order, none without one
RowsOfFirstSupplyHeaderTable ==
    IF SupplyHeaderPlaces = {} THEN <<>>
    ELSE LET pl == CHOOSE x \in SupplyHeaderPlaces :
                      \A y \in SupplyHeaderPlaces : x = y \/ PlaceBefore(x, y)
         IN SupplyTable(<<>>, pdf[pl[1]][pl[2]])

\* C23: what extract_supply_target_from_tables returns are the rows of the
\* first table in (page, table) order that holds a header row, and nothing
\* when that table has no data row: no later table is used.
C23_RowsOfFirstHeaderTableOnly ==
    (fn = "extract_supply_target_from_tables" /\ pc = "done")
        => supply_rows = RowsOfFirstSupplyHeaderTable

RECURSIVE SumOfDigitCells(_, _, _)
\* the sum over the special-supply columns from key i on of the cells that
\* consist of digits only
SumOfDigitCells(row, cm, i) ==
    IF i > Len(SpecialKeys) THEN 0
    ELSE LET idx == cm[SpecialKeys[i]]
             cell == IF idx = 0 \/ idx > Len(row) THEN <<>> ELSE row[idx]
         IN (IF cell # <<>> /\ DigitsOf(cell) = cell THEN IntOf(cell) ELSE 0)
                + SumOfDigitCells(row, cm, i + 1)

\* C24: the 특별공급 세대수 of every row extract_supply_target_from_tables
\* returns is the sum of the cells of the five special-supply columns of
\* its table row that consist of digits only, a missing or empty cell and a
\* cell with another character counting 0; it is str of the sum when the
\* sum is above 0 and empty otherwise.
C24_SpecialTotalSumsDigitOnlyCells ==
    fn = "extract_supply_target_from_tables" =>
        \A i \in 1..Len(supply_rows) :
            \E pl \in SupplyHeaderPlaces :
                LET df == DataFrame(pdf[pl[1]][pl[2]])
                    df2 == SubSeq(df, HeaderIdx(df), Len(df))
                    cm == SupplyColMap(df2)
                IN \E r \in 2..Len(df2) :
                      LET total == SumOfDigitCells(df2[r], cm, 1)
                      IN /\ SupplyRowIsKept(df2[r], cm)
                         /\ supply_rows[i] =
                              [SupplyRec(df2[r], cm) EXCEPT
                                 !.teukbyeol = IF total > 0 THEN StrOf(total)
                                               ELSE <<>>]

\* the first candidate line the first pattern matches, 0 without one
FirstYearMonthLine(cands) ==
    LET at == {i \in 1..Len(cands) : SearchYearMonth(cands[i]) # <<>>}
    IN IF at = {} THEN 0 ELSE CHOOSE i \in at : \A j \in at : i <= j

\* C25: when a candidate line of extract_move_in_date matches
\* "YYYY년 M월", the result is built from the first such line, whatever
\* lines before it match "YYYY.M" only.
C25_YearMonthPatternGoesFirst ==
    (pc = "done" /\ fn = "extract_move_in_date") =>
        LET cands == MoveInCandidates(arg)
            i == FirstYearMonthLine(cands)
        IN i # 0 => ret = YearMonthText(SearchYearMonth(cands[i]))

(***************************************************************************)
(* SpecRead: the text functions as the main flow of app.py calls them      *)
(* (1371, 1375), on the text of the document.  The main flow names the     *)
(* text `text` and assigns it nowhere; it is taken as the text of the      *)
(* uploaded document.                                                      *)
(***************************************************************************)
\* 유의사항
K_Yuuisahang == <<"yu", "ui", "sa", "hang">>

\* remove_keywords
RemoveKeywords ==
    { \* 무주택기간 적용기준, 무주택 기간 적용기준, 무주택기간 산정기준
      <<"mu", "ju", "taek", "gi", "gan", " ", "jeok", "yong", "gi", "jun">>,
      <<"mu", "ju", "taek", " ", "gi", "gan", " ", "jeok", "yong", "gi", "jun">>,
      <<"mu", "ju", "taek", "gi", "gan", " ", "san", "jeong", "gi", "jun">>,
      \* 청약 시 유의사항, 청약시 유의사항, 유의사항
      <<"cheong", "yak", " ", "si", " ">> \o K_Yuuisahang,
      <<"cheong", "yak", "si", " ">> \o K_Yuuisahang,
      K_Yuuisahang,
      \* 기타 사항, 기타사항
      <<"gi", "ta", " ", "sa", "hang">>,
      <<"gi", "ta", "sa", "hang">>,
      \* 공급(분양)계약에 관한 유의사항, 계약체결시 유의사항
      <<"gong", "geup", "(", "bun", "yang", ")", "gye", "yak", "e", " ",
        "gwan", "han", " ">> \o K_Yuuisahang,
      <<"gye", "yak", "che", "gyeol", "si", " ">> \o K_Yuuisahang }

\* filter_irrelevant_sections(text), text and result as their lines
filter_irrelevant_sections(lines) ==
    SelectSeq(lines, LAMBDA line : ~ContainsAny(Strip(line), RemoveKeywords))

ReadLines ==
    { \* "유의사항: 입주예정 2027.3"
      K_Yuuisahang \o <<":", " ">> \o K_Ipjuyejeong
            \o <<" ", "2", "0", "2", "7", ".", "3">>,
      \* "입주예정일 2027년 5월"
      K_Ipjuyejeong \o <<"il", " ", "2", "0", "2", "7", "nyeon", " ", "5", "wol">>,
      \* "무주택기간 적용기준 입주시기 2028년 1월"
      <<"mu", "ju", "taek", "gi", "gan", " ", "jeok", "yong", "gi", "jun", " ",
        "ip", "ju", "si", "gi", " ", "2", "0", "2", "8", "nyeon", " ", "1",
        "wol">>,
      \* "기타사항 입주자모집공고"
      <<"gi", "ta", "sa", "hang", " ">> \o K_Marker,
      ScenarioALine,
      \* "기타 사항"
      <<"gi", "ta", " ", "sa", "hang">>,
      \* "공급위치 서울"
      <<"gong", "geup", "wi", "chi", " ", "seo", "ul">>,
      <<>> }

ReadTexts == SeqsUpTo(ReadLines, MaxTextLines)

InitRead ==
    /\ MainIdle
    /\ pdf = <<>>
    /\ pc = "text"
    /\ page_idx = 0
    /\ table_idx = 0
    /\ schedule = EmptySchedule
    /\ offered = [l \in Labels |-> <<>>]
    /\ nupd = 0
    /\ CompIdle
    /\ PriceIdle
    /\ ret = NoValue
    /\ fn = "main"
    /\ arg \in ReadTexts

readFrame == <<pdf, page_idx, table_idx, schedVars, callVars, compVars,
               priceVars, core, loan_cond, location, supply_rows, shown,
               schedule_rows, excel, run, first_run>>

\* line 1371: move_in = extract_move_in_date(text)
ReadMoveIn ==
    /\ pc = "text" /\ fn = "main"
    /\ move_in' = extract_move_in_date(arg)
    /\ pc' = "move_in"
    /\ UNCHANGED <<readFrame, complex_name>>

\* line 1375: parse_complex_name(text)
ReadComplexName ==
    /\ pc = "move_in" /\ fn = "main"
    /\ complex_name' = ParseComplexName(arg)
    /\ pc' = "read"
    /\ UNCHANGED <<readFrame, move_in>>

NextRead == ReadMoveIn \/ ReadComplexName

SpecRead == InitRead /\ [][NextRead]_vars

\* C26: the text functions of the main flow read the text only after
\* filter_irrelevant_sections has taken out the lines with a keyword of
\* remove_keywords: what extract_move_in_date and parse_complex_name give
\* is what they give for the filtered text.
C26_TextIsFilteredBeforeItIsRead ==
    fn = "main" =>
        /\ pc \in {"move_in", "read"}
              => move_in = extract_move_in_date(filter_irrelevant_sections(arg))
        /\ pc = "read"
              => complex_name = ParseComplexName(filter_irrelevant_sections(arg))

(***************************************************************************)
(* SpecName: one call of normalize_company_name on a name with and without *)
(* a corporate marker, a truncated marker and a ※ remark                   *)
(***************************************************************************)
NamePrefixes ==
    { <<>>, K_Ju, K_Ju \o <<" ">>, K_JuCircle \o <<" ">>, <<"ref", " ">>,
      <<"-", " ">> }

NameSuffixes ==
    { <<>>, K_Ju, <<" ">> \o K_Ju, <<" ", "(", "ju">>, <<"(", "ju">>,
      <<" ">> \o K_JuCircle,
      \* " ※ 비고"
      <<" ", "ref", " ", "bi", "go">>,
      \* "(주) ※"
      K_Ju \o <<" ", "ref">> }

\* 대한건설, 한국 개발
NameStems == { <<"dae", "han">> \o K_Geonseol, <<"han", "guk", "\n", "gae", "bal">> }

MarkedNames ==
    {a \o n \o b : a \in NamePrefixes, n \in NameStems, b \in NameSuffixes}

InitName ==
    /\ MainIdle
    /\ pdf = <<>>
    /\ pc = "call"
    /\ page_idx = 0
    /\ table_idx = 0
    /\ schedule = EmptySchedule
    /\ offered = [l \in Labels |-> <<>>]
    /\ nupd = 0
    /\ CompIdle
    /\ PriceIdle
    /\ ret = NoValue
    /\ fn = "normalize_company_name"
    /\ arg \in MarkedNames

CallNormalizeCompanyName ==
    /\ pc = "call" /\ fn = "normalize_company_name"
    /\ ret' = normalize_company_name(arg)
    /\ pc' = "done"
    /\ UNCHANGED <<mainVars, pdf, page_idx, table_idx, schedVars, fn, arg, compVars, priceVars>>

NextName == CallNormalizeCompanyName

SpecName == InitName /\ [][NextName]_vars

\* C27: what normalize_company_name returns holds no space right before
\* and none right after a marker (주) or ㈜, the marker made by closing a
\* trailing "(주" included.
C27_NoSpaceAtMarker ==
    (pc = "done" /\ fn = "normalize_company_name") =>
        \A m \in {K_Ju, K_JuCircle} :
            /\ ~Contains(ret, <<" ">> \o m)
            /\ ~Contains(ret, m \o <<" ">>)

\* "(" and ")" of s are balanced
Balanced(s) ==
    LET depth(i) == Len(SelectSeq(SubSeq(s, 1, i), LAMBDA ch : ch = "("))
                        - Len(SelectSeq(SubSeq(s, 1, i), LAMBDA ch : ch = ")"))
    IN /\ \A i \in 1..Len(s) : depth(i) >= 0
       /\ depth(Len(s)) = 0

\* C28: for a name that holds (주) before any ※, also at its very start,
\* what normalize_company_name returns holds (주) and its parentheses are
\* balanced.
C28_MarkerIsKeptWhole ==
    (pc = "done" /\ fn = "normalize_company_name"
            /\ Contains(BeforeRef(arg), K_Ju))
        => Contains(ret, K_Ju) /\ Balanced(ret)

\* the cells of page p of the document whose normalised text is name
CellsNamed(p, name) ==
    {c \in UNION {UNION {{<<k, i, j>> : j \in 1..Len(pdf[p][k][i])} :
                            i \in 1..Len(pdf[p][k])} :
                    k \in 1..Len(pdf[p])} :
        LET cell == pdf[p][c[1]][c[2]][c[3]]
        IN Strip(cell) # <<>> /\ normalize_company_name(cell) = name}

\* C29: extract_company_candidates_from_pdf lists a table cell at most
\* once for a role, also a cell whose row label and whose column header both
\* name the role: a name is in the list of a role for a page no more often
\* than the page has cells of that name.
C29_CellIsCandidateOncePerRole ==
    (fn = "extract_company_from_table" /\ table_candidates # <<>>) =>
        \A role \in Roles :
            \A x \in 1..Len(table_candidates[role]) :
                LET e == table_candidates[role][x]
                    same == {y \in 1..Len(table_candidates[role]) :
                                table_candidates[role][y] = e}
                IN Cardinality(same) <= Cardinality(CellsNamed(e[2] + 1, e[1]))

RECURSIVE LayoutAll(_, _, _, _)
\* what extract_price_table_with_layout returns for the document when it
\* does not raise: the page loop from page p on
LayoutAll(st, centers, hy, p) ==
    IF p > Len(pdf) THEN st.results
    ELSE LET raw_words == RawWords(pdf[p])
         IN IF LayoutPageIsRead(raw_words)
            THEN LayoutAll(LayoutPageRows(st, raw_words, centers, hy, p),
                           CentersAfter(raw_words, centers),
                           HeaderYAfter(raw_words, hy), p + 1)
            ELSE LayoutAll(st, centers, hy, p + 1)

RECURSIVE TablesAll(_, _, _, _)
\* what extract_price_table_from_tables returns for the document: the
\* table loop from table k of page p on, and the clean-up
TablesAll(st, last, p, k) ==
    IF p > Len(pdf) THEN Dedup(st.results)
    ELSE IF k > Len(pdf[p]) THEN TablesAll(st, last, p + 1, 1)
    ELSE LET table == pdf[p][k]
             cm == ColMapOf(table, last)
         IN IF Len(table) >= 2 /\ PassesPreFilter(DataFrame(table))
            THEN TablesAll(ParseTable(st, table, cm, p, k),
                           IF HeaderIdx(DataFrame(table)) # 0 THEN cm ELSE last,
                           p, k + 1)
            ELSE TablesAll(st, last, p, k + 1)

NoRows == PriceState(<<>>, <<>>, <<>>, <<>>)

\* C30: the price_rows of the main flow are what
\* extract_price_table_with_layout returns when it returns rows and does not
\* raise; when it returns none or raises they are what
\* extract_price_table_from_tables returns for the same document, and the
\* flow goes on to its end.
C30_LayoutFirstThenTables ==
    (fn = "main" /\ pc = "done") =>
        LET layout == LayoutAll(NoRows, NoCenters, NoCoord, 1)
        IN price_rows = IF ~layout_fails /\ layout # <<>> THEN layout
                        ELSE TablesAll(NoRows, NoColMap, 1, 1)

\* the layout extractor raised on a document it would have found rows in,
\* and the main flow has the rows of the tables
C30_Witness ==
    /\ fn = "main" /\ pc = "done"
    /\ layout_fails
    /\ LayoutAll(NoRows, NoCenters, NoCoord, 1) # <<>>
    /\ price_rows # <<>>
    /\ price_rows = TablesAll(NoRows, NoColMap, 1, 1)

=============================================================================
